---- MODULE Spec2Model ----
(***************************************************************************)
(* Verification model of the Resume-Analyser backend.                      *)
(*                                                                         *)
(*   Part I    ranking store: routers/candidates.py get_candidate_rankings *)
(*             and generate_candidate_ranking over the applications,       *)
(*             resumes and candidate_rankings collections.                 *)
(*   Part II   bias log: services/bias_service.py BiasDetectionService.    *)
(*   Part III  skill ontology: services/ontology_service.py.               *)
(*                                                                         *)
(* Scores are kept in hundredths of a point (4800 stands for 48.00), so    *)
(* that round(x, 2) is an integer operation.  Similarities are kept as     *)
(* fractions <<numerator, denominator>>.                                   *)
(***************************************************************************)
EXTENDS Integers, Sequences, FiniteSets, TLC

VARIABLES
    \* ---- Part I: collections (database) --------------------------------
    applications,        \* "applications" collection, in insertion order
    resumes,             \* candidate -> processed resumes, oldest first
    candidate_rankings,  \* "candidate_rankings" collection, insertion order
    next_id,             \* source of fresh uuid4 values
    \* ---- Part I: one get_candidate_rankings request per handler --------
    pc,                  \* handler -> position in get_candidate_rankings
    h_job,               \* handler -> job_id of the request
    h_apps,              \* handler -> applications read at line 44
    h_i,                 \* handler -> index of the application in the loop
    h_resume,            \* handler -> resume document read at line 55
    h_rankings,          \* handler -> local list `rankings`
    \* ---- Part II: BiasDetectionService ---------------------------------
    bias_logs,           \* self.bias_logs
    now,                 \* datetime.now(), a logical clock
    log_history,         \* history: every entry appended to bias_logs, in order
    b_result,            \* last analyze_candidate_bias call and result
    b_report,            \* last generate_bias_report call and result
    \* ---- Part III: OntologyService -------------------------------------
    skill_ontology,      \* self.skill_ontology: sequence of categories
    job_ontology,        \* self.job_ontology: sequence of job roles
    kg_type,             \* knowledge_graph nodes: node -> 'type' attribute
    kg_edge,             \* knowledge_graph edges: <<u, v>> -> relationship
    initialized,         \* self.initialized
    q_sim,               \* last calculate_skill_similarity call and result
    q_rel,               \* last find_related_skills call and result
    q_enh,               \* last enhance_candidate_scoring call and result
    \* ---- Part IV: EnhancedNLPService -----------------------------------
    features_enabled,    \* self.features_enabled
    e_score,             \* last calculate_enhanced_candidate_score call and result
    e_ens,               \* last _calculate_ensemble_score call and result
    \* ---- Part V: MLModelsService ---------------------------------------
    models,              \* self.models: the names of the models held
    is_trained,          \* self.is_trained
    m_call,              \* last predict_candidate_score call and result
    m_features,          \* last _extract_features call and result
    \* ---- Part VI: jobs router ------------------------------------------
    jobs_collection,     \* the jobs collection: job id -> document
    utcnow,              \* datetime.utcnow(), a logical clock in days
    s_request            \* handler -> update_job_status request past its check

vars == <<applications, resumes, candidate_rankings, next_id,
          pc, h_job, h_apps, h_i, h_resume, h_rankings,
          bias_logs, now, log_history, b_result, b_report,
          skill_ontology, job_ontology, kg_type, kg_edge, initialized,
          q_sim, q_rel, q_enh,
          features_enabled, e_score, e_ens,
          models, is_trained, m_call, m_features,
          jobs_collection, utcnow, s_request>>

rankVars == <<applications, resumes, candidate_rankings, next_id,
              pc, h_job, h_apps, h_i, h_resume, h_rankings>>
biasVars == <<bias_logs, now, log_history, b_result, b_report>>
ontoVars == <<skill_ontology, job_ontology, kg_type, kg_edge, initialized,
              q_sim, q_rel, q_enh>>
enhVars == <<features_enabled, e_score, e_ens>>
mlVars == <<models, is_trained, m_call, m_features>>
jobVars == <<jobs_collection, utcnow, s_request>>

(***************************************************************************)
(* Generic helpers                                                         *)
(***************************************************************************)
Range(s) == {s[i] : i \in 1..Len(s)}

Min(a, b) == IF a <= b THEN a ELSE b

Max(a, b) == IF a >= b THEN a ELSE b

\* round(n / d, 0) for n >= 0, d > 0
RoundDiv(n, d) == (2 * n + d) \div (2 * d)

RECURSIVE SeqFilter(_, _)
\* the subsequence of s whose elements are in the set keep
SeqFilter(s, keep) ==
    IF s = <<>> THEN <<>>
    ELSE IF Head(s) \in keep THEN <<Head(s)>> \o SeqFilter(Tail(s), keep)
    ELSE SeqFilter(Tail(s), keep)

\* s without its k-th element
RemoveAt(s, k) == [i \in 1..(Len(s) - 1) |-> IF i < k THEN s[i] ELSE s[i + 1]]

(***************************************************************************)
(* PART I  -  RANKING STORE                                                *)
(***************************************************************************)
Candidates == {"c1", "c2"}

Jobs == {"j1", "j2"}

Handlers == {1, 2}

\* bound on the rows ever inserted into candidate_rankings
MaxRows == 2

\* bound on the processed resumes one candidate keeps
MaxResumes == 1

\* bound on the applications submitted
MaxApps == 2

\* job documents: the fields generate_candidate_ranking reads
JobDoc(j) ==
    IF j = "j1" THEN [required_skills |-> <<"python">>]
    ELSE [required_skills |-> <<"python", "sql">>]

\* parsed_data of the resumes candidates upload
Profiles ==
    { [skills |-> <<"python">>, experience |-> 1, education |-> {}],
      [skills |-> <<"Python", "SQL">>, experience |-> 1, education |-> {}] }

\* str.lower() on the skill names of the model
Lower(s) ==
    CASE s = "Python" -> "python"
      [] s = "SQL" -> "sql"
      [] s = "Django" -> "django"
      [] s = "PostgreSQL" -> "postgresql"
      [] OTHER -> s

LowerSeq(s) == [i \in 1..Len(s) |-> Lower(s[i])]

\* _calculate_skill_match, as the fraction <<matches * 100, len(job_skills)>>
CalculateSkillMatch(resume_skills, job_skills) ==
    IF job_skills = <<>> THEN <<0, 1>>
    ELSE LET rl == Range(LowerSeq(resume_skills))
             jl == LowerSeq(job_skills)
             matches == Cardinality({i \in 1..Len(jl) : jl[i] \in rl})
         IN  <<matches * 100, Len(jl)>>

\* _calculate_experience_score: experience is len(resume_data["experience"])
CalculateExperienceScore(experience) == Min(experience * 20, 100)

DegreeScore(d) ==
    CASE d = "phd" -> 100
      [] d = "master" -> 80
      [] d = "bachelor" -> 60
      [] d = "diploma" -> 40
      [] d = "certificate" -> 20
      [] OTHER -> 0

RECURSIVE SetMax(_)
SetMax(S) ==
    IF S = {} THEN 0
    ELSE LET x == CHOOSE y \in S : TRUE IN Max(x, SetMax(S \ {x}))

\* _calculate_education_score: education is the set of degree keywords found
CalculateEducationScore(education) == SetMax({DegreeScore(d) : d \in education})

\* calculate_candidate_score: the score fields, in hundredths
CalculateCandidateScore(resume_data, job_requirements) ==
    LET sk == CalculateSkillMatch(resume_data.skills, job_requirements.required_skills)
        ex == CalculateExperienceScore(resume_data.experience)
        ed == CalculateEducationScore(resume_data.education)
    IN  [overall_score    |-> RoundDiv(40 * sk[1] + sk[2] * (40 * ex + 20 * ed), sk[2]),
         skill_score      |-> RoundDiv(100 * sk[1], sk[2]),
         experience_score |-> 100 * ex,
         education_score  |-> 100 * ed]

\* applications_collection.find({"job_id": job_id}).to_list()
ApplicationsOf(j) ==
    LET idx == {i \in 1..Len(applications) : applications[i].job_id = j}
        RECURSIVE Build(_)
        Build(k) == IF k > Len(applications) THEN <<>>
                    ELSE IF k \in idx THEN <<applications[k].candidate_id>> \o Build(k + 1)
                    ELSE Build(k + 1)
    IN  Build(1)

\* find_one returning None
NoDocument == [none |-> TRUE]

\* resumes_collection.find_one({candidate_id, status: processed}, sort created_at desc)
LatestResume(c) == IF resumes[c] = <<>> THEN NoDocument ELSE resumes[c][Len(resumes[c])]

\* rankings_collection.find_one({candidate_id, job_id}): index of the first match, 0 if none
FindRanking(c, j) ==
    LET idx == {i \in 1..Len(candidate_rankings) :
                   /\ candidate_rankings[i].candidate_id = c
                   /\ candidate_rankings[i].job_id = j}
    IN  IF idx = {} THEN 0 ELSE CHOOSE i \in idx : \A k \in idx : i <= k

\* CandidateRanking(**doc): the fields the model declares; "_id" is not one of them
CandidateRanking(doc) ==
    [candidate_id     |-> doc.candidate_id,
     job_id           |-> doc.job_id,
     match_score      |-> doc.match_score,
     skills_match     |-> doc.skills_match,
     experience_match |-> doc.experience_match,
     education_match  |-> doc.education_match,
     ranking_position |-> doc.ranking_position,
     ranking_date     |-> doc.ranking_date]

RECURSIVE InsertDesc(_, _)
\* insert x behind every element of the sorted list s whose score is >= x's
InsertDesc(s, x) ==
    IF s = <<>> THEN <<x>>
    ELSE IF Head(s).match_score >= x.match_score THEN <<Head(s)>> \o InsertDesc(Tail(s), x)
    ELSE <<x>> \o s

RECURSIVE SortByScoreDesc(_)
\* rankings.sort(key=match_score, reverse=True): stable, equal scores keep their order
SortByScoreDesc(s) ==
    IF s = <<>> THEN <<>>
    ELSE InsertDesc(SortByScoreDesc(SubSeq(s, 1, Len(s) - 1)), s[Len(s)])

InitRank ==
    /\ applications = <<>>
    /\ resumes = [c \in Candidates |-> <<>>]
    /\ candidate_rankings = <<>>
    /\ next_id = 1
    /\ pc = [h \in Handlers |-> "idle"]
    /\ h_job = [h \in Handlers |-> "none"]
    /\ h_apps = [h \in Handlers |-> <<>>]
    /\ h_i = [h \in Handlers |-> 0]
    /\ h_resume = [h \in Handlers |-> NoDocument]
    /\ h_rankings = [h \in Handlers |-> <<>>]

\* apply_to_job: rejected when the candidate already applied to the job
ApplyToJob(c, j) ==
    /\ Len(applications) < MaxApps
    /\ \A i \in 1..Len(applications) :
          ~(applications[i].candidate_id = c /\ applications[i].job_id = j)
    /\ applications' = Append(applications, [candidate_id |-> c, job_id |-> j])
    /\ UNCHANGED <<resumes, candidate_rankings, next_id, pc, h_job, h_apps, h_i, h_resume, h_rankings>>
    /\ UNCHANGED <<biasVars, ontoVars, enhVars, mlVars, jobVars>>

\* upload_resume with parse_resume_async succeeding: a new processed resume
UploadResume(c, p) ==
    /\ Len(resumes[c]) < MaxResumes
    /\ resumes' = [resumes EXCEPT ![c] = Append(@, p)]
    /\ UNCHANGED <<applications, candidate_rankings, next_id, pc, h_job, h_apps, h_i, h_resume, h_rankings>>
    /\ UNCHANGED <<biasVars, ontoVars, enhVars, mlVars, jobVars>>

\* delete_resume
DeleteResume(c, k) ==
    /\ k \in 1..Len(resumes[c])
    /\ resumes' = [resumes EXCEPT ![c] = RemoveAt(@, k)]
    /\ UNCHANGED <<applications, candidate_rankings, next_id, pc, h_job, h_apps, h_i, h_resume, h_rankings>>
    /\ UNCHANGED <<biasVars, ontoVars, enhVars, mlVars, jobVars>>

\* the handler's position once the application loop moved to index i
AfterApplication(h, i, apps) == IF i > Len(apps) THEN "reorder" ELSE "resume"

\* get_candidate_rankings, lines 25-50: read the job's applications
StartRankings(h, j) ==
    /\ pc[h] \in {"idle", "returned", "raised"}
    /\ LET apps == ApplicationsOf(j)
       IN  /\ h_job' = [h_job EXCEPT ![h] = j]
           /\ h_apps' = [h_apps EXCEPT ![h] = apps]
           /\ h_rankings' = [h_rankings EXCEPT ![h] = <<>>]
           /\ h_i' = [h_i EXCEPT ![h] = IF apps = <<>> THEN 0 ELSE 1]
           /\ h_resume' = [h_resume EXCEPT ![h] = NoDocument]
           /\ pc' = [pc EXCEPT ![h] = IF apps = <<>> THEN "returned" ELSE "resume"]
    /\ UNCHANGED <<applications, resumes, candidate_rankings, next_id>>
    /\ UNCHANGED <<biasVars, ontoVars, enhVars, mlVars, jobVars>>

\* lines 52-61: find the candidate's latest processed resume, skip without one
FindResume(h) ==
    /\ pc[h] = "resume"
    /\ LET resume == LatestResume(h_apps[h][h_i[h]])
       IN  IF resume = NoDocument
           THEN /\ h_i' = [h_i EXCEPT ![h] = @ + 1]
                /\ pc' = [pc EXCEPT ![h] = AfterApplication(h, h_i[h] + 1, h_apps[h])]
                /\ UNCHANGED h_resume
           ELSE /\ h_resume' = [h_resume EXCEPT ![h] = resume]
                /\ pc' = [pc EXCEPT ![h] = "existing"]
                /\ UNCHANGED h_i
    /\ UNCHANGED <<applications, resumes, candidate_rankings, next_id, h_job, h_apps, h_rankings>>
    /\ UNCHANGED <<biasVars, ontoVars, enhVars, mlVars, jobVars>>

\* a lookup that refreshes the stored scores of the row it finds from the
\* resume just read
FindExisting_Rescore(h) ==
    /\ pc[h] = "existing"
    /\ LET k == FindRanking(h_apps[h][h_i[h]], h_job[h])
           scores == CalculateCandidateScore(h_resume[h], JobDoc(h_job[h]))
       IN  IF k # 0
           THEN /\ candidate_rankings' = [candidate_rankings EXCEPT
                                             ![k].match_score = scores.overall_score,
                                             ![k].skills_match = scores.skill_score,
                                             ![k].experience_match = scores.experience_score,
                                             ![k].education_match = scores.education_score]
                /\ h_rankings' = [h_rankings EXCEPT ![h] = Append(@, CandidateRanking(candidate_rankings'[k]))]
                /\ h_i' = [h_i EXCEPT ![h] = @ + 1]
                /\ h_resume' = [h_resume EXCEPT ![h] = NoDocument]
                /\ pc' = [pc EXCEPT ![h] = AfterApplication(h, h_i[h] + 1, h_apps[h])]
           ELSE /\ pc' = [pc EXCEPT ![h] = "generate"]
                /\ UNCHANGED <<candidate_rankings, h_rankings, h_i, h_resume>>
    /\ UNCHANGED <<applications, resumes, next_id, h_job, h_apps>>
    /\ UNCHANGED <<biasVars, ontoVars, enhVars, mlVars, jobVars>>

\* lines 63-70: look the pair's ranking up, reuse it when there is one
FindExisting(h) ==
    /\ pc[h] = "existing"
    /\ LET k == FindRanking(h_apps[h][h_i[h]], h_job[h])
       IN  IF k # 0
           THEN /\ h_rankings' = [h_rankings EXCEPT ![h] = Append(@, CandidateRanking(candidate_rankings[k]))]
                /\ h_i' = [h_i EXCEPT ![h] = @ + 1]
                /\ h_resume' = [h_resume EXCEPT ![h] = NoDocument]
                /\ pc' = [pc EXCEPT ![h] = AfterApplication(h, h_i[h] + 1, h_apps[h])]
           ELSE /\ pc' = [pc EXCEPT ![h] = "generate"]
                /\ UNCHANGED <<h_rankings, h_i, h_resume>>
    /\ UNCHANGED <<applications, resumes, candidate_rankings, next_id, h_job, h_apps>>
    /\ UNCHANGED <<biasVars, ontoVars, enhVars, mlVars, jobVars>>

\* generate_candidate_ranking, lines 100-133: score the resume read at line 55,
\* insert the row with ranking_position 0 and hand the in-memory ranking back
GenerateCandidateRanking(h) ==
    /\ pc[h] = "generate"
    /\ next_id <= MaxRows
    /\ LET c == h_apps[h][h_i[h]]
           scores == CalculateCandidateScore(h_resume[h], JobDoc(h_job[h]))
           ranking_doc == [id               |-> next_id,
                           candidate_id     |-> c,
                           job_id           |-> h_job[h],
                           match_score      |-> scores.overall_score,
                           skills_match     |-> scores.skill_score,
                           experience_match |-> scores.experience_score,
                           education_match  |-> scores.education_score,
                           ranking_position |-> 0,
                           \* datetime.utcnow(): the stamp of the insertion
                           ranking_date     |-> next_id]
       IN  /\ candidate_rankings' = Append(candidate_rankings, ranking_doc)
           /\ next_id' = next_id + 1
           /\ h_rankings' = [h_rankings EXCEPT ![h] = Append(@, CandidateRanking(ranking_doc))]
           /\ h_i' = [h_i EXCEPT ![h] = @ + 1]
           /\ h_resume' = [h_resume EXCEPT ![h] = NoDocument]
           /\ pc' = [pc EXCEPT ![h] = AfterApplication(h, h_i[h] + 1, h_apps[h])]
    /\ UNCHANGED <<applications, resumes, h_job, h_apps>>
    /\ UNCHANGED <<biasVars, ontoVars, enhVars, mlVars, jobVars>>

\* lines 78-89: sort, then renumber.  CandidateRanking declares no field `id`
\* (models/resume.py:102-112), so with a non-empty list the first pass of the
\* loop sets rankings[0].ranking_position = 1 in memory and then raises
\* AttributeError while evaluating `ranking.id` at line 85: update_one is never
\* called and the request fails.  With an empty list the loop body never runs
\* and the empty list is returned.
ReorderRankings(h) ==
    /\ pc[h] = "reorder"
    /\ LET sorted == SortByScoreDesc(h_rankings[h])
       IN  IF sorted = <<>>
           THEN /\ pc' = [pc EXCEPT ![h] = "returned"]
                /\ UNCHANGED h_rankings
           ELSE /\ pc' = [pc EXCEPT ![h] = "raised"]
                /\ h_rankings' = [h_rankings EXCEPT ![h] = [sorted EXCEPT ![1].ranking_position = 1]]
    \* the request is over: its other locals are dropped
    /\ h_apps' = [h_apps EXCEPT ![h] = <<>>]
    /\ h_i' = [h_i EXCEPT ![h] = 0]
    /\ UNCHANGED <<applications, resumes, candidate_rankings, next_id, h_job, h_resume>>
    /\ UNCHANGED <<biasVars, ontoVars, enhVars, mlVars, jobVars>>

NextRank ==
    \/ \E c \in Candidates, j \in Jobs : ApplyToJob(c, j)
    \/ \E c \in Candidates, p \in Profiles : UploadResume(c, p)
    \/ \E c \in Candidates, k \in 1..MaxResumes : DeleteResume(c, k)
    \/ \E h \in Handlers, j \in Jobs : StartRankings(h, j)
    \/ \E h \in Handlers : FindResume(h)
    \/ \E h \in Handlers : FindExisting(h)
    \/ \E h \in Handlers : GenerateCandidateRanking(h)
    \/ \E h \in Handlers : ReorderRankings(h)

(***************************************************************************)
(* Part I - properties                                                     *)
(***************************************************************************)
\* indices of the rows persisted for job j
RowsOfJob(j) == {i \in 1..Len(candidate_rankings) : candidate_rankings[i].job_id = j}

\* indices of the rows persisted for the pair (c, j)
RowsOfPair(c, j) == {i \in RowsOfJob(j) : candidate_rankings[i].candidate_id = c}

\* the persisted positions of job j are a permutation of 1..N, N the number of its rows
PositionsArePermutation(j) ==
    /\ \A i \in RowsOfJob(j) :
          candidate_rankings[i].ranking_position \in 1..Cardinality(RowsOfJob(j))
    /\ \A i, k \in RowsOfJob(j) :
          i # k => candidate_rankings[i].ranking_position # candidate_rankings[k].ranking_position

\* the score fields of a ranking row or of an in-memory ranking
ScoreFields(r) == <<r.match_score, r.skills_match, r.experience_match, r.education_match>>

\* the score fields generate_candidate_ranking derives from a score bundle
BundleFields(scores) ==
    <<scores.overall_score, scores.skill_score, scores.experience_score, scores.education_score>>

\* no request other than h is in the middle of get_candidate_rankings
OthersQuiescent(h) == \A g \in Handlers \ {h} : pc[g] \in {"idle", "returned", "raised"}

\* C1: when the sort-and-renumber step of get_candidate_rankings returns (no
\* other request being in progress), the positions persisted for the job are a
\* permutation of 1..N without gaps or duplicates, N being the number of rows
\* persisted for the job.
C1_PositionsPermutationAfterReorder ==
    [][\A h \in Handlers :
          (pc[h] = "reorder" /\ pc'[h] = "returned" /\ OthersQuiescent(h))
              => PositionsArePermutation(h_job[h])']_vars

\* C2: every finished ranking request has returned a list (an empty cohort
\* included) that is ordered by score descending, equal scores by ascending
\* candidate id, and whose k-th element carries position k.
C2_ReturnedListOrderedAndNumbered ==
    \A h \in Handlers :
        pc[h] \in {"returned", "raised"} =>
            /\ pc[h] = "returned"
            /\ \A k \in 1..Len(h_rankings[h]) : h_rankings[h][k].ranking_position = k
            /\ \A k \in 1..(Len(h_rankings[h]) - 1) :
                  \/ h_rankings[h][k].match_score > h_rankings[h][k + 1].match_score
                  \/ /\ h_rankings[h][k].match_score = h_rankings[h][k + 1].match_score
                     /\ h_rankings[h][k].candidate_id \in {"c1"}
                     /\ h_rankings[h][k + 1].candidate_id \in {"c2"}

\* find_one on the pair (c, j): the score fields read back
ReadScores(c, j) == ScoreFields(candidate_rankings[FindRanking(c, j)])

\* C3: the get-or-generate step of a request on a pair (no other request being
\* in progress, the bundle being that of the resume on file) adds no row when
\* it found the pair's ranking, and a read of the pair after the step returns
\* the score values of that bundle (the later upsert), not older ones.
C3_UpsertKeepsOneRowWithLatestValues ==
    [][\A h \in Handlers, c \in Candidates, j \in Jobs :
          ( /\ pc[h] \in {"existing", "generate"}
            /\ h_i'[h] = h_i[h] + 1
            /\ c = h_apps[h][h_i[h]]
            /\ j = h_job[h]
            /\ OthersQuiescent(h)
            /\ h_resume[h] = LatestResume(c) ) =>
              /\ (pc[h] = "existing" => Len(candidate_rankings') = Len(candidate_rankings))
              /\ ReadScores(c, j)' = BundleFields(CalculateCandidateScore(h_resume[h], JobDoc(j)))]_vars

\* C4: in every reachable state, whatever the interleaving of the requests,
\* the ranking store holds at most one row per (candidate, job) pair.
C4_AtMostOneRowPerPair ==
    \A c \in Candidates, j \in Jobs : Cardinality(RowsOfPair(c, j)) <= 1

\* C5: once two requests on the same job have both returned, the positions
\* persisted for the job are those of one of the two reorders run alone, a
\* permutation of 1..N.
C5_ConcurrentReordersLeavePermutation ==
    \A h, g \in Handlers :
        (h # g /\ pc[h] = "returned" /\ pc[g] = "returned" /\ h_job[h] = h_job[g]
              /\ RowsOfJob(h_job[h]) # {})
            => PositionsArePermutation(h_job[h])

\* C22: once a rankings request is over, every ranking it built reads back
\* from the store (find_one on the pair) with the same candidate id, job id,
\* four score values and ranking position.
C22_StoredRowRoundTrips ==
    LET RankingFields(r) == <<r.candidate_id, r.job_id, r.match_score, r.skills_match,
                              r.experience_match, r.education_match, r.ranking_position>>
    IN  \A h \in Handlers :
        pc[h] \in {"returned", "raised"} =>
            \A i \in 1..Len(h_rankings[h]) :
                LET r == h_rankings[h][i]
                    k == FindRanking(r.candidate_id, r.job_id)
                IN  /\ k # 0
                    /\ RankingFields(candidate_rankings[k]) = RankingFields(r)

\* C29: no step of a rankings request (nor any other step) removes a stored
\* row or changes its match_score, skills_match, experience_match,
\* education_match or ranking_date; the lookup of an existing row in
\* particular leaves the store as it is, whatever resume was just read.
C29_ExistingRowScoresFrozen ==
    [][/\ Len(candidate_rankings') >= Len(candidate_rankings)
       /\ \A k \in 1..Len(candidate_rankings) :
             /\ ScoreFields(candidate_rankings'[k]) = ScoreFields(candidate_rankings[k])
             /\ candidate_rankings'[k].ranking_date = candidate_rankings[k].ranking_date
             /\ candidate_rankings'[k].candidate_id = candidate_rankings[k].candidate_id
             /\ candidate_rankings'[k].job_id = candidate_rankings[k].job_id
       /\ \A h \in Handlers :
             (FindExisting(h) /\ FindRanking(h_apps[h][h_i[h]], h_job[h]) # 0) =>
                 /\ candidate_rankings' = candidate_rankings
                 /\ ScoreFields(h_rankings'[h][Len(h_rankings'[h])])
                      = ReadScores(h_apps[h][h_i[h]], h_job[h])]_vars

\* a request found the row of a pair whose resume has been replaced since the
\* row was scored (the resume now stored scores differently) and reused it
\* with the stored scores; an earlier request is over
C29_Witness ==
    \E h \in Handlers, g \in Handlers :
        /\ h # g
        /\ pc[h] = "reorder"
        /\ pc[g] = "raised"
        /\ h_rankings[h] # <<>>
        /\ LET r == h_rankings[h][Len(h_rankings[h])]
               resume == LatestResume(r.candidate_id)
           IN  /\ FindRanking(r.candidate_id, r.job_id) # 0
               /\ r.ranking_date < next_id
               /\ resume # NoDocument
               /\ CalculateCandidateScore(resume, JobDoc(r.job_id)).overall_score # r.match_score
               /\ ScoreFields(r) = ReadScores(r.candidate_id, r.job_id)

(***************************************************************************)
(* PART II  -  BIAS LOG                                                    *)
(*                                                                         *)
(* Confidences are kept in sixtieths (60 stands for 1.0): the detectors    *)
(* divide by 10, 4, 5 and len(experience) <= 3.  A candidate is given by   *)
(* the counts the five detectors derive from its texts.                    *)
(*                                                                         *)
(* analyze_candidate_bias and everything it awaits are coroutines that     *)
(* never suspend (no I/O, no pending future), so the event loop runs each  *)
(* call to completion before another call starts: one call is one step.   *)
(***************************************************************************)
\* "Keep only last 1000 entries", bias_service.py:296-297
LogCapacity == 1000

\* bound on the logged evaluations of the capacity specification
MaxLogEvaluations == 1002

\* 1.0 in sixtieths
One == 60

Abs(x) == IF x < 0 THEN -x ELSE x

\* _detect_gender_bias
DetectGenderBias(cd) ==
    [bias_detected |-> Abs(cd.female - cd.male) > 2,
     confidence    |-> Min(One, 6 * (cd.female + cd.male))]

\* _detect_name_bias: name_hits of the 4 patterns match
DetectNameBias(cd) ==
    [bias_detected |-> cd.name_hits > 0,
     confidence    |-> Min(One, 15 * cd.name_hits)]

\* _detect_education_bias
DetectEducationBias(cd) ==
    [bias_detected |-> \/ (cd.prestigious > 0 /\ cd.community = 0)
                       \/ (cd.community > 0 /\ cd.prestigious = 0),
     confidence    |-> Min(One, 12 * (cd.prestigious + cd.community))]

\* _detect_experience_bias: n_exp entries, startup of them at startup-like companies
DetectExperienceBias(cd) ==
    IF cd.n_exp = 0 THEN [bias_detected |-> FALSE, confidence |-> 0]
    ELSE LET diff == Abs(cd.startup - (cd.n_exp - cd.startup))
         IN  [bias_detected |-> 10 * diff > 7 * cd.n_exp,
              confidence    |-> Min(One, (One * diff) \div cd.n_exp)]

\* _detect_geographic_bias
DetectGeographicBias(cd) ==
    [bias_detected |-> \/ (cd.major_cities > 0 /\ cd.rural = 0)
                       \/ (cd.rural > 0 /\ cd.major_cities = 0),
     confidence    |-> Min(One, 12 * (cd.major_cities + cd.rural))]

BiasTypes == {"gender", "name", "education", "experience", "geographic"}

Detect(t, cd) ==
    CASE t = "gender" -> DetectGenderBias(cd)
      [] t = "name" -> DetectNameBias(cd)
      [] t = "education" -> DetectEducationBias(cd)
      [] t = "experience" -> DetectExperienceBias(cd)
      [] OTHER -> DetectGeographicBias(cd)

\* analyze_candidate_bias, lines 81-112: bias type -> confidence of the triggered detectors
BiasIndicators(cd) ==
    [t \in {u \in BiasTypes : Detect(u, cd).bias_detected} |-> Detect(t, cd).confidence]

RECURSIVE SumOver(_, _)
SumOver(f, S) ==
    IF S = {} THEN 0
    ELSE LET x == CHOOSE y \in S : TRUE IN f[x] + SumOver(f, S \ {x})

\* CalculateOverallBiasScore as the mean over all five bias types, the ones that
\* did not trigger counting as 0
CalculateOverallBiasScore_AllTypes(bias_indicators) ==
    IF DOMAIN bias_indicators = {} THEN <<0, 1>>
    ELSE <<SumOver(bias_indicators, DOMAIN bias_indicators), One * Cardinality(BiasTypes)>>

\* _calculate_overall_bias_score, as the fraction <<numerator, denominator>> of 1.0
CalculateOverallBiasScore(bias_indicators) ==
    IF DOMAIN bias_indicators = {} THEN <<0, 1>>
    ELSE LET total == SumOver(bias_indicators, DOMAIN bias_indicators)
             n == Cardinality(DOMAIN bias_indicators)
         IN  IF total > One * n THEN <<1, 1>> ELSE <<total, One * n>>

\* the fraction f is greater than 0.5
MoreThanHalf(f) == 2 * f[1] > f[2]

\* LogAppend with the truncation keeping the oldest entries instead of the newest
LogAppend_KeepOldest(logs, log_entry) ==
    LET appended == Append(logs, log_entry)
    IN  IF Len(appended) > LogCapacity THEN SubSeq(appended, 1, LogCapacity) ELSE appended

\* LogAppend as a buffer whose appends, once it is full, all go to the last slot
LogAppend_SameSlot(logs, log_entry) ==
    IF Len(logs) >= LogCapacity
    THEN [logs EXCEPT ![LogCapacity] = log_entry]
    ELSE Append(logs, log_entry)

\* the list after _log_bias_detection appended log_entry, lines 293-297
LogAppend(logs, log_entry) ==
    LET appended == Append(logs, log_entry)
    IN  IF Len(appended) > LogCapacity
        THEN SubSeq(appended, Len(appended) - LogCapacity + 1, Len(appended))
        ELSE appended

\* _log_bias_detection, lines 284-291
LogEntry(cd, bias_indicators, ranking_score) ==
    [timestamp       |-> now,
     candidate_id    |-> cd.candidate_id,
     bias_indicators |-> bias_indicators,
     ranking_score   |-> ranking_score,
     bias_score      |-> CalculateOverallBiasScore(bias_indicators),
     requires_review |-> MoreThanHalf(CalculateOverallBiasScore(bias_indicators))]

InitBias ==
    /\ bias_logs = <<>>
    /\ log_history = <<>>
    /\ now = 0
    /\ b_result = <<>>
    /\ b_report = <<>>

\* the result of analyze_candidate_bias, lines 114-133
BiasAnalysis(cd) ==
    IF cd.malformed THEN [bias_detected |-> FALSE, error |-> TRUE]
    ELSE [bias_detected      |-> DOMAIN BiasIndicators(cd) # {},
          bias_indicators    |-> BiasIndicators(cd),
          overall_bias_score |-> CalculateOverallBiasScore(BiasIndicators(cd))]

\* AnalyzeCandidateBiasCall logging every evaluation that does not raise, the
\* ones without triggered detector too
AnalyzeCandidateBiasCall_LogAll(cd, ranking_score) ==
    /\ IF cd.malformed
       THEN UNCHANGED <<bias_logs, log_history, now>>
       ELSE LET log_entry == LogEntry(cd, BiasIndicators(cd), ranking_score)
            IN  /\ bias_logs' = LogAppend(bias_logs, log_entry)
                /\ log_history' = Append(log_history, log_entry)
                /\ now' = now + 1
    /\ b_result' = [candidate_data |-> cd, ranking_score |-> ranking_score,
                    result |-> BiasAnalysis(cd)]
    /\ UNCHANGED b_report

\* analyze_candidate_bias: what one call does to the service
AnalyzeCandidateBiasCall(cd, ranking_score) ==
    /\ IF cd.malformed \/ DOMAIN BiasIndicators(cd) = {}
       THEN UNCHANGED <<bias_logs, log_history, now>>
       ELSE LET log_entry == LogEntry(cd, BiasIndicators(cd), ranking_score)
            IN  /\ bias_logs' = LogAppend(bias_logs, log_entry)
                /\ log_history' = Append(log_history, log_entry)
                /\ now' = now + 1
    /\ b_result' = [candidate_data |-> cd, ranking_score |-> ranking_score,
                    result |-> BiasAnalysis(cd)]
    /\ UNCHANGED b_report

\* analyze_candidate_bias by one of the concurrent callers: a malformed profile raises
\* inside the try block and yields the error result, a profile without triggered
\* detector is not logged, any other evaluation is logged.  The clock read at
\* line 285 is later than every earlier reading.
AnalyzeCandidateBias(caller, cd, ranking_score) ==
    /\ AnalyzeCandidateBiasCall(cd, ranking_score)
    /\ UNCHANGED <<rankVars, ontoVars, enhVars, mlVars, jobVars>>

\* the coroutines that call the service concurrently
Callers == {1, 2}

\* the profiles of the capacity specification: one flagged, one clean
FlaggedProfile ==
    [candidate_id |-> "c1", malformed |-> FALSE, female |-> 0, male |-> 0, name_hits |-> 2,
     prestigious |-> 1, community |-> 0, n_exp |-> 2, startup |-> 1, major_cities |-> 0, rural |-> 0]

CleanProfile ==
    [candidate_id |-> "c2", malformed |-> FALSE, female |-> 1, male |-> 0, name_hits |-> 0,
     prestigious |-> 0, community |-> 0, n_exp |-> 0, startup |-> 0, major_cities |-> 0, rural |-> 0]

MalformedProfile == [FlaggedProfile EXCEPT !.malformed = TRUE]

LogProfiles == {FlaggedProfile, CleanProfile, MalformedProfile}

NextBiasLog ==
    /\ Len(log_history) < MaxLogEvaluations
    /\ \E caller \in Callers, cd \in LogProfiles : AnalyzeCandidateBias(caller, cd, 4800)

\* bounds of the report specification: logged evaluations, clock readings,
\* time_period_days, and the clock readings that make a day
MaxReportEvaluations == 3
MaxClock == 5
MaxPeriodDays == 2
TicksPerDay == 2

\* the profiles of the report specification; c3 triggers the name detector alone,
\* at confidence 0.5; c4 triggers the gender, experience and geographic detectors,
\* mean 0.8
ReportProfiles ==
    { FlaggedProfile, CleanProfile, MalformedProfile,
    [candidate_id |-> "c3", malformed |-> FALSE, female |-> 0, male |-> 0, name_hits |-> 2,
     prestigious |-> 0, community |-> 0, n_exp |-> 0, startup |-> 0, major_cities |-> 0, rural |-> 0],
    [candidate_id |-> "c4", malformed |-> FALSE, female |-> 4, male |-> 0, name_hits |-> 0,
     prestigious |-> 1, community |-> 1, n_exp |-> 1, startup |-> 1, major_cities |-> 5, rural |-> 0] }

\* time passes between two calls
Tick ==
    /\ now < MaxClock
    /\ now' = now + 1
    /\ UNCHANGED <<bias_logs, log_history, b_result, b_report>>
    /\ UNCHANGED <<rankVars, ontoVars, enhVars, mlVars, jobVars>>

\* the logs of the trailing window, lines 302-304: isoformat and fromisoformat
\* give the logged reading back, and the cutoff is time_period_days before now
RecentLogs(logs, time_period_days) ==
    SeqFilter(logs, {log \in Range(logs) : log.timestamp >= now - time_period_days * TicksPerDay})

\* the sum of the bias_score fractions of the logs, over the denominator 60 * One
RECURSIVE SumBiasScores(_)
SumBiasScores(logs) ==
    IF logs = <<>> THEN 0
    ELSE (Head(logs).bias_score[1] * ((60 * One) \div Head(logs).bias_score[2]))
            + SumBiasScores(Tail(logs))

\* the result of generate_bias_report, lines 299-353; rates are fractions, the
\* rounded fields are in thousandths
BiasReport(logs, time_period_days) ==
    LET recent_logs == RecentLogs(logs, time_period_days)
        total_candidates == Len(recent_logs)
    IN  IF recent_logs = <<>>
        THEN [period_days |-> time_period_days,
              total_candidates |-> 0,
              bias_detection_rate |-> 0,
              bias_types |-> <<>>,
              recommendations |-> {}]
        ELSE IF \E i \in DOMAIN recent_logs : "bias_detected" \notin DOMAIN recent_logs[i]
        THEN \* log['bias_detected'] raises KeyError, caught at line 348
             [error |-> TRUE, period_days |-> time_period_days]
        ELSE LET bias_detected_count ==
                     Cardinality({i \in DOMAIN recent_logs : recent_logs[i].bias_detected})
                 bias_detection_rate == <<bias_detected_count, total_candidates>>
                 present == UNION {DOMAIN recent_logs[i].bias_indicators : i \in DOMAIN recent_logs}
                 bias_types ==
                     [t \in present |->
                         Cardinality({i \in DOMAIN recent_logs :
                                         t \in DOMAIN recent_logs[i].bias_indicators})]
                 avg_bias_score == <<SumBiasScores(recent_logs), 60 * One * total_candidates>>
             IN  [period_days |-> time_period_days,
                  total_candidates |-> total_candidates,
                  bias_detection_rate |->
                      RoundDiv(1000 * bias_detection_rate[1], bias_detection_rate[2]),
                  average_bias_score |-> RoundDiv(1000 * avg_bias_score[1], avg_bias_score[2]),
                  bias_types |-> bias_types,
                  recommendations |->
                      {r \in {"rate", "gender", "name"} :
                          \/ r = "rate" /\ 5 * bias_detection_rate[1] > bias_detection_rate[2]
                          \/ r \in present \cap {"gender", "name"}
                                /\ 10 * bias_types[r] > total_candidates},
                  requires_attention |->
                      \/ 100 * bias_detection_rate[1] > 15 * bias_detection_rate[2]
                      \/ MoreThanHalf(avg_bias_score)]

\* generate_bias_report reads the log and the clock and returns its result
GenerateBiasReport(time_period_days) ==
    /\ b_report' = [time_period_days |-> time_period_days, at |-> now,
                    logs |-> bias_logs,
                    result |-> BiasReport(bias_logs, time_period_days)]
    /\ UNCHANGED <<bias_logs, log_history, now, b_result>>
    /\ UNCHANGED <<rankVars, ontoVars, enhVars, mlVars, jobVars>>

\* one evaluation of the report specification
EvaluateCandidate(cd, ranking_score) ==
    /\ Len(log_history) < MaxReportEvaluations
    /\ now < MaxClock
    /\ AnalyzeCandidateBias(1, cd, ranking_score)

NextBiasReport ==
    \/ \E cd \in ReportProfiles : EvaluateCandidate(cd, 4800)
    \/ Tick
    \/ \E time_period_days \in 0..MaxPeriodDays : GenerateBiasReport(time_period_days)

(***************************************************************************)
(* Part II - properties                                                    *)
(***************************************************************************)
\* the last n elements of s (all of s when it is shorter)
LastN(s, n) == SubSeq(s, Len(s) - Min(Len(s), n) + 1, Len(s))

\* C6: the bias log never holds more than LogCapacity entries, and after
\* LogCapacity + 1 appends the first appended entry is gone, the last appended
\* entry is there, and the log is the LogCapacity most recent entries in order.
C6_LogBoundedOldestEvicted ==
    /\ Len(bias_logs) <= LogCapacity
    /\ Len(log_history) = LogCapacity + 1 =>
          /\ \A i \in 1..Len(bias_logs) : bias_logs[i] # log_history[1]
          /\ bias_logs[Len(bias_logs)] = log_history[LogCapacity + 1]
          /\ bias_logs = SubSeq(log_history, 2, LogCapacity + 1)

\* C6 witness: the append that follows a full log has happened
C6_Witness ==
    /\ Len(log_history) = LogCapacity + 1
    /\ Len(bias_logs) = LogCapacity
    /\ bias_logs[1] = log_history[2]

\* C7: whatever the order of the callers' evaluations, every appended entry has
\* a slot of its own: after k logged evaluations the log is exactly the last
\* min(k, LogCapacity) appended entries, none lost but by eviction of the oldest.
C7_AppendsAtomicWithEviction ==
    /\ bias_logs = LastN(log_history, LogCapacity)
    /\ \A i \in 1..(Len(bias_logs) - 1) : bias_logs[i].timestamp < bias_logs[i + 1].timestamp

\* C7 witness: two appends have each evicted an entry
C7_Witness ==
    /\ Len(log_history) = LogCapacity + 2
    /\ bias_logs[LogCapacity - 1] = log_history[LogCapacity + 1]
    /\ bias_logs[LogCapacity] = log_history[LogCapacity + 2]

\* the sum of the confidences of the detectors that triggered
TriggeredSum(cd) ==
    LET Confidence(d) == IF d.bias_detected THEN d.confidence ELSE 0
        r == [t \in BiasTypes |-> Detect(t, cd)]
    IN  Confidence(r["gender"]) + Confidence(r["name"]) + Confidence(r["education"])
            + Confidence(r["experience"]) + Confidence(r["geographic"])

\* the number of detectors that triggered
TriggeredCount(cd) == Cardinality({t \in BiasTypes : Detect(t, cd).bias_detected})

\* C19: the aggregate bias score of an evaluation is the mean of the confidences
\* of the triggered dimensions only, 0 when none triggered; it lies in [0, 1];
\* and the entry the evaluation logs has requires_review true exactly when the
\* aggregate is strictly greater than 0.5.
C19_AggregateIsMeanOfTriggered ==
    (b_result # <<>> /\ ~b_result.candidate_data.malformed) =>
        LET cd == b_result.candidate_data
            aggregate == b_result.result.overall_bias_score
            n == TriggeredCount(cd)
        IN  /\ aggregate[2] > 0 /\ 0 <= aggregate[1] /\ aggregate[1] <= aggregate[2]
            /\ n = 0 => aggregate[1] = 0
            /\ n > 0 =>
                  /\ aggregate[1] * One * n = TriggeredSum(cd) * aggregate[2]
                  /\ log_history # <<>>
                  /\ LET log_entry == log_history[Len(log_history)]
                     IN  /\ log_entry.candidate_id = cd.candidate_id
                         /\ log_entry.bias_score[1] * aggregate[2]
                               = aggregate[1] * log_entry.bias_score[2]
                         /\ log_entry.requires_review <=> (2 * aggregate[1] > aggregate[2])

\* C19 witness: an evaluation with three triggered dimensions and one that has a
\* confidence but did not trigger was logged for review, after an evaluation of
\* aggregate exactly 0.5 that was logged without the flag
C19_Witness ==
    /\ b_result # <<>>
    /\ b_result.candidate_data.candidate_id = "c4"
    /\ b_result.result.overall_bias_score = <<144, 180>>
    /\ ~DetectEducationBias(b_result.candidate_data).bias_detected
    /\ DetectEducationBias(b_result.candidate_data).confidence > 0
    /\ Len(log_history) >= 2
    /\ log_history[Len(log_history)].requires_review
    /\ \E i \in DOMAIN log_history :
          /\ 2 * log_history[i].bias_score[1] = log_history[i].bias_score[2]
          /\ ~log_history[i].requires_review

\* the entries of the log a report read that lie in its trailing window
WindowOf(report) ==
    SeqFilter(report.logs,
              {log \in Range(report.logs) :
                  report.at - log.timestamp <= report.time_period_days * TicksPerDay})

\* C20: whatever the log and the window, bias_report returns a report, never an
\* error result, with period_days, the number of evaluations in the trailing
\* window, the detection rate, the per-dimension counts and the mean aggregate
\* score, all computed from the entries of the trailing window only.
C20_ReportNeverFails ==
    b_report # <<>> =>
        LET r == b_report.result
            window == WindowOf(b_report)
            triggered == {i \in DOMAIN window : DOMAIN window[i].bias_indicators # {}}
        IN  /\ "error" \notin DOMAIN r
            /\ {"period_days", "total_candidates", "bias_detection_rate", "bias_types"}
                  \subseteq DOMAIN r
            /\ r.period_days = b_report.time_period_days
            /\ r.total_candidates = Len(window)
            /\ window # <<>> =>
                  /\ "average_bias_score" \in DOMAIN r
                  /\ r.bias_detection_rate = RoundDiv(1000 * Cardinality(triggered), Len(window))
                  /\ r.average_bias_score
                        = RoundDiv(1000 * SumBiasScores(window), 60 * One * Len(window))
                  /\ \A t \in BiasTypes :
                        LET count == Cardinality({i \in DOMAIN window :
                                                    t \in DOMAIN window[i].bias_indicators})
                        IN  IF count = 0 THEN t \notin DOMAIN r.bias_types
                            ELSE t \in DOMAIN r.bias_types /\ r.bias_types[t] = count

\* C21: every bias report carries a requires_attention flag, true exactly when
\* the detection rate of the window is strictly above 0.15 or the mean aggregate
\* bias score of the window is strictly above 0.5, hence false for an empty
\* window.
C21_ReportFlagsAttention ==
    b_report # <<>> =>
        LET r == b_report.result
            window == WindowOf(b_report)
            triggered == {i \in DOMAIN window : DOMAIN window[i].bias_indicators # {}}
        IN  /\ "requires_attention" \in DOMAIN r
            /\ r.requires_attention <=>
                  /\ window # <<>>
                  /\ \/ 100 * Cardinality(triggered) > 15 * Len(window)
                     \/ 2 * SumBiasScores(window) > 60 * One * Len(window)

\* C28: an evaluation appends exactly one entry to the bias log if and only if
\* at least one of the five detectors triggered; an evaluation without triggered
\* detector and an evaluation that fails inside leave the log unchanged.
C28_LoggedIffTriggered ==
    [][\A cd \in ReportProfiles :
          AnalyzeCandidateBias(1, cd, 4800) =>
              IF ~cd.malformed /\ TriggeredCount(cd) >= 1
              THEN /\ Len(log_history') = Len(log_history) + 1
                   /\ log_history'[Len(log_history')].candidate_id = cd.candidate_id
                   /\ bias_logs' = LastN(Append(bias_logs, log_history'[Len(log_history')]),
                                         LogCapacity)
              ELSE UNCHANGED <<bias_logs, log_history>>]_vars

\* C28 witness: after a logged evaluation, an evaluation without triggered
\* detector has returned and the log holds the one entry
C28_Witness ==
    /\ b_result # <<>>
    /\ ~b_result.candidate_data.malformed
    /\ TriggeredCount(b_result.candidate_data) = 0
    /\ ~b_result.result.bias_detected
    /\ Len(log_history) = 1
    /\ bias_logs = log_history

(***************************************************************************)
(* PART III  -  SKILL ONTOLOGY                                             *)
(*                                                                         *)
(* A dict is a sequence of entries in insertion order.  The knowledge      *)
(* graph (nx.DiGraph) is the pair of kg_type, node -> 'type' attribute     *)
(* ("none" for a node add_edge created), and kg_edge, <<u, v>> ->          *)
(* 'relationship' attribute.                                               *)
(***************************************************************************)
\* bound on the max_depth argument of find_related_skills
MaxDepth == 3

Sk(name, related) == [name |-> name, related |-> related]

Cat(category, skills) == [category |-> category, skills |-> skills]

JobRole(name, required, preferred) ==
    [name |-> name, required_skills |-> required, preferred_skills |-> preferred]

\* _initialize_basic_ontology, lines 35-69
SeedSkillOntology ==
    << Cat("programming_languages",
           << Sk("python", {"django", "flask", "pandas", "numpy"}),
              Sk("javascript", {"react", "node", "vue", "angular"}),
              Sk("java", {"spring", "hibernate", "maven"}),
              Sk("sql", {"mysql", "postgresql", "oracle"}),
              Sk("go", {"kubernetes", "docker", "microservices"}),
              Sk("rust", {"cargo", "tokio", "actix"}) >>),
       Cat("frameworks",
           << Sk("react", {"javascript", "redux", "jsx"}),
              Sk("django", {"python", "orm", "mvc"}),
              Sk("spring", {"java", "hibernate", "mvc"}),
              Sk("express", {"javascript", "node", "middleware"}),
              Sk("flask", {"python", "jinja2", "werkzeug"}) >>),
       Cat("databases",
           << Sk("mysql", {"sql", "innodb", "replication"}),
              Sk("postgresql", {"sql", "json", "indexing"}),
              Sk("mongodb", {"document", "aggregation", "sharding"}),
              Sk("redis", {"memory", "pubsub", "clustering"}) >>),
       Cat("cloud_platforms",
           << Sk("aws", {"ec2", "s3", "lambda", "rds"}),
              Sk("azure", {"vm", "storage", "functions", "sql"}),
              Sk("gcp", {"compute", "storage", "functions", "bigquery"}),
              Sk("docker", {"kubernetes", "containers", "images"}),
              Sk("kubernetes", {"docker", "pods", "services", "deployments"}) >>),
       Cat("tools",
           << Sk("git", {"github", "gitlab", "branching"}),
              Sk("jenkins", {"pipeline", "automation", "deployment"}),
              Sk("terraform", {"iac", "aws", "azure", "gcp"}) >>) >>

\* _initialize_basic_ontology, lines 72-97
SeedJobOntology ==
    << JobRole("software_engineer", {"programming", "algorithms", "data_structures"},
               {"testing", "debugging", "code_review"}),
       JobRole("data_scientist", {"python", "statistics", "machine_learning"},
               {"pandas", "scikit-learn", "tensorflow"}),
       JobRole("devops_engineer", {"docker", "kubernetes", "aws"},
               {"terraform", "jenkins", "monitoring"}),
       JobRole("frontend_developer", {"javascript", "html", "css"},
               {"react", "vue", "angular"}) >>

\* nx.DiGraph()
EmptyGraph == [type |-> <<>>, edge |-> <<>>]

\* `n in self.knowledge_graph`
HasNode(G, n) == n \in DOMAIN G.type

RECURSIVE FlattenSkills(_)
\* the (category, skill) pairs in the iteration order of lines 105-106 and 125-126
FlattenSkills(ontology) ==
    IF ontology = <<>> THEN <<>>
    ELSE [i \in 1..Len(Head(ontology).skills) |->
             [category |-> Head(ontology).category,
              name     |-> Head(ontology).skills[i].name,
              related  |-> Head(ontology).skills[i].related]]
         \o FlattenSkills(Tail(ontology))

\* _build_knowledge_graph, which adds to the graph G the service already holds.
\* add_node sets the type of a node, new or old, and the job loop runs after the
\* skill loop; add_edge creates a missing end node without a type and sets the
\* relationship of an edge, new or old, so the last write to an edge decides.
\* The loop of lines 125-133 reaches skill flat[k] when the nodes are NodesAt(k).
BuildKnowledgeGraph(G, skills, jobs) ==
    LET flat == FlattenSkills(skills)
        skillNames == {flat[k].name : k \in DOMAIN flat}
        jobNames == {jobs[m].name : m \in DOMAIN jobs}
        typed == DOMAIN G.type \cup skillNames \cup jobNames
        NodesAt(k) == typed \cup {flat[i].category : i \in 1..(k - 1)}
        nodes == typed \cup {flat[k].category : k \in DOMAIN flat}
        SkillWrites(u, v) ==
            {k \in DOMAIN flat :
                /\ flat[k].name = u
                /\ \/ v = flat[k].category
                   \/ v \in flat[k].related /\ v \in NodesAt(k)}
        JobWrites(u, v) ==
            {m \in DOMAIN jobs :
                /\ jobs[m].name = u
                /\ v \in jobs[m].required_skills \cup jobs[m].preferred_skills
                /\ v \in nodes}
        edges == DOMAIN G.edge
                    \cup {e \in skillNames \X nodes : SkillWrites(e[1], e[2]) # {}}
                    \cup {e \in jobNames \X nodes : JobWrites(e[1], e[2]) # {}}
        Relationship(u, v) ==
            IF JobWrites(u, v) # {}
            THEN IF v \in jobs[CHOOSE m \in JobWrites(u, v) : TRUE].preferred_skills
                 THEN "prefers" ELSE "requires"
            ELSE IF SkillWrites(u, v) # {}
            THEN IF v = flat[CHOOSE k \in SkillWrites(u, v) : \A i \in SkillWrites(u, v) : i <= k].category
                 THEN "belongs_to" ELSE "related"
            ELSE G.edge[<<u, v>>]
    IN  [type |-> [n \in nodes |->
                      IF n \in jobNames THEN "job"
                      ELSE IF n \in skillNames THEN "skill"
                      ELSE IF n \in DOMAIN G.type THEN G.type[n]
                      ELSE "none"],
         edge |-> [e \in edges |-> Relationship(e[1], e[2])]]

\* the nodes an edge of G joins to a node of S, in either direction
Successors_Undirected(G, S) ==
    {e[2] : e \in {x \in DOMAIN G.edge : x[1] \in S}}
        \cup {e[1] : e \in {x \in DOMAIN G.edge : x[2] \in S}}

\* the nodes the edges of G lead to from the nodes of S, along edge direction
Successors(G, S) == {e[2] : e \in {x \in DOMAIN G.edge : x[1] \in S}}

RECURSIVE BreadthFirst(_, _, _, _, _)
\* breadth-first search: the level at which target is first seen, -1 when the
\* search is exhausted (nx.NetworkXNoPath)
BreadthFirst(G, frontier, visited, target, level) ==
    IF target \in frontier THEN level
    ELSE LET next == Successors(G, frontier) \ visited
         IN  IF next = {} THEN -1
             ELSE BreadthFirst(G, next, visited \cup next, target, level + 1)

\* nx.shortest_path_length(G, source, target) on a DiGraph
ShortestPathLength(G, source, target) == BreadthFirst(G, {source}, {source}, target, 0)

RECURSIVE WithinCutoff(_, _, _, _)
\* the keys of nx.single_source_shortest_path_length(G, source, cutoff)
WithinCutoff(G, frontier, visited, cutoff) ==
    IF cutoff <= 0 THEN visited
    ELSE LET next == Successors(G, frontier) \ visited
         IN  IF next = {} THEN visited
             ELSE WithinCutoff(G, next, visited \cup next, cutoff - 1)

\* calculate_skill_similarity with the membership test joined by `and`: networkx
\* then raises NodeNotFound, which the handler of line 215 does not catch
SkillSimilarity_AndCheck(G, skill1, skill2) ==
    IF skill1 = skill2 THEN <<1, 1>>
    ELSE IF ~HasNode(G, skill1) /\ ~HasNode(G, skill2) THEN <<0, 1>>
    ELSE IF ~HasNode(G, skill1) \/ ~HasNode(G, skill2) THEN <<-1, 1>>
    ELSE LET path_length == ShortestPathLength(G, skill1, skill2)
         IN  IF path_length = -1 THEN <<0, 1>> ELSE <<1, 1 + path_length>>

\* calculate_skill_similarity, as a fraction
SkillSimilarity(G, skill1, skill2) ==
    IF skill1 = skill2 THEN <<1, 1>>
    ELSE IF ~HasNode(G, skill1) \/ ~HasNode(G, skill2) THEN <<0, 1>>
    ELSE LET path_length == ShortestPathLength(G, skill1, skill2)
         IN  IF path_length = -1 THEN <<0, 1>> ELSE <<1, 1 + path_length>>

\* find_related_skills without the test of the node type
RelatedSkills_AnyType(G, skill, max_depth) ==
    IF ~HasNode(G, skill) THEN {}
    ELSE UNION { {node \in WithinCutoff(G, {skill}, {skill}, depth) : node # skill}
                 : depth \in 1..max_depth }

\* find_related_skills, the result as a set
RelatedSkills(G, skill, max_depth) ==
    IF ~HasNode(G, skill) THEN {}
    ELSE UNION { {node \in WithinCutoff(G, {skill}, {skill}, depth) :
                     node # skill /\ G.type[node] = "skill"}
                 : depth \in 1..max_depth }

\* the graph the service holds
KnowledgeGraph == [type |-> kg_type, edge |-> kg_edge]

RECURSIVE UpdateSkills(_, _)
\* self.skill_ontology.update(additional_data['skills']), line 171: a category
\* the dict holds is replaced in place, a new one goes to the end
UpdateSkills(d, other) ==
    IF other = <<>> THEN d
    ELSE LET e == Head(other)
             at == {i \in 1..Len(d) : d[i].category = e.category}
         IN  UpdateSkills(IF at = {} THEN Append(d, e)
                          ELSE [d EXCEPT ![CHOOSE i \in at : TRUE] = e],
                          Tail(other))

RECURSIVE UpdateJobs(_, _)
\* self.job_ontology.update(additional_data['jobs']), line 173
UpdateJobs(d, other) ==
    IF other = <<>> THEN d
    ELSE LET e == Head(other)
             at == {i \in 1..Len(d) : d[i].name = e.name}
         IN  UpdateJobs(IF at = {} THEN Append(d, e)
                        ELSE [d EXCEPT ![CHOOSE i \in at : TRUE] = e],
                        Tail(other))

\* contents of data/ontology.json the service may find at start-up
ExternalOntologies ==
    { [skills |-> << Cat("databases", << Sk("postgresql", {"sql", "mysql"}) >>) >>,
       jobs   |-> <<>>],
      [skills |-> << Cat("api", << Sk("graphql", {"javascript", "frontend_developer"}),
                                    Sk("orm", {"databases", "django"}) >>) >>,
       jobs   |-> << JobRole("dba", {"postgresql", "sql"}, {"mysql"}) >>],
      [skills |-> <<>>,
       jobs   |-> << JobRole("data_scientist", {"sql"}, {"python"}) >>],
      [skills |-> << Cat("roles", << Sk("devops_engineer", {"docker"}) >>) >>,
       jobs   |-> <<>>] }

\* names that are not in the seed graph
UnknownNames == {"cobol", "graphql"}

InitOnto ==
    /\ skill_ontology = SeedSkillOntology
    /\ job_ontology = SeedJobOntology
    /\ LET G == BuildKnowledgeGraph(EmptyGraph, SeedSkillOntology, SeedJobOntology)
       IN  kg_type = G.type /\ kg_edge = G.edge
    /\ initialized = FALSE
    /\ q_sim = <<>>
    /\ q_rel = <<>>
    /\ q_enh = <<>>

\* fractions <<n, d>> with d > 0: f > g
Greater(f, g) == f[1] * g[2] > g[1] * f[2]

\* a threshold of 0.2
SemanticThreshold_Fifth == <<1, 5>>

\* the threshold 0.3 of a semantic match
SemanticThreshold == <<3, 10>>

\* the default max_depth of find_related_skills
DefaultMaxDepth == 2

\* related_skills[:4], a learning path that is one skill longer
LearningPathLength_Four == 3 + 1

\* related_skills[:3], the length of a learning path
LearningPathLength == 3

\* best_match = None
NoMatch == [match_type |-> "none"]

RECURSIVE MatchLoop(_, _, _, _, _, _)
\* _find_semantic_matches: the loop over candidate_skills for one target_skill,
\* from the i-th candidate skill on
MatchLoop(G, candidate_skills, target_skill, i, best_match, best_similarity) ==
    IF i > Len(candidate_skills) THEN best_match
    ELSE IF Lower(candidate_skills[i]) = Lower(target_skill)
    THEN [candidate_skill |-> candidate_skills[i], target_skill |-> target_skill,
          similarity |-> <<1, 1>>, match_type |-> "exact"]
    ELSE LET similarity == SkillSimilarity(G, candidate_skills[i], target_skill)
         IN  IF Greater(similarity, best_similarity) /\ Greater(similarity, SemanticThreshold)
             THEN MatchLoop(G, candidate_skills, target_skill, i + 1,
                            [candidate_skill |-> candidate_skills[i],
                             target_skill |-> target_skill,
                             similarity |-> similarity, match_type |-> "semantic"],
                            similarity)
             ELSE MatchLoop(G, candidate_skills, target_skill, i + 1,
                            best_match, best_similarity)

\* _find_semantic_matches
FindSemanticMatches(G, candidate_skills, target_skills) ==
    LET best == [t \in 1..Len(target_skills) |->
                    MatchLoop(G, candidate_skills, target_skills[t], 1, NoMatch, <<0, 1>>)]
    IN  SeqFilter(best, Range(best) \ {NoMatch})

\* _identify_skill_gaps: required_skill gets a gap entry
IsGap(G, candidate_skills, required_skill) ==
    /\ \A k \in 1..Len(candidate_skills) :
          Lower(candidate_skills[k]) # Lower(required_skill)
    /\ \A k \in 1..Len(candidate_skills) :
          ~Greater(SkillSimilarity(G, candidate_skills[k], required_skill), SemanticThreshold)

\* the sets related_skills[:n] can hold: find_related_skills returns list(set(...)),
\* whose order is not determined
FirstOf(related_skills, n) ==
    {T \in SUBSET related_skills : Cardinality(T) = Min(n, Cardinality(related_skills))}

RECURSIVE IdentifySkillGaps(_, _, _)
\* _identify_skill_gaps: the gap lists it can return, learning_path as a set
IdentifySkillGaps(G, candidate_skills, required_skills) ==
    IF required_skills = <<>> THEN {<<>>}
    ELSE LET required_skill == Head(required_skills)
             rest == IdentifySkillGaps(G, candidate_skills, Tail(required_skills))
             related_skills == RelatedSkills(G, required_skill, DefaultMaxDepth)
         IN  IF ~IsGap(G, candidate_skills, required_skill) THEN rest
             ELSE {<<[missing_skill |-> required_skill,
                      related_candidate_skills |-> SeqFilter(candidate_skills, related_skills),
                      learning_path |-> path]>> \o gaps :
                   path \in FirstOf(related_skills, LearningPathLength), gaps \in rest}

\* _calculate_ontology_confidence, as a fraction
CalculateOntologyConfidence(matches, required_skills) ==
    IF required_skills = <<>> THEN <<0, 1>>
    ELSE <<Min(Len(matches), Len(required_skills)), Len(required_skills)>>

\* enhance_candidate_scoring: ontology_score in hundredths,
\* min(100, len(semantic_matches) / max(len(required_skills), 1) * 100
\*          + len(preferred_matches) * 5)
OntologyScore(semantic_matches, preferred_matches, required_skills) ==
    LET n == Max(Len(required_skills), 1)
    IN  Min(10000, RoundDiv(Len(semantic_matches) * 10000 + Len(preferred_matches) * 500 * n, n))

\* no call of a query method is between its call and its return; the query
\* methods are coroutines that never suspend, so nothing else runs meanwhile
NoCallPending == q_sim = <<>> /\ q_rel = <<>> /\ q_enh = <<>>

\* initialize() when data/ontology.json does not exist
InitializeWithoutFile ==
    /\ ~initialized
    /\ NoCallPending
    /\ initialized' = TRUE
    /\ UNCHANGED <<skill_ontology, job_ontology, kg_type, kg_edge, q_sim, q_rel, q_enh>>
    /\ UNCHANGED <<rankVars, biasVars, enhVars, mlVars, jobVars>>

\* initialize() with _load_ontology_data reading additional_data from the file
InitializeWithFile(additional_data) ==
    /\ ~initialized
    /\ NoCallPending
    /\ LET skills == UpdateSkills(skill_ontology, additional_data.skills)
           jobs == UpdateJobs(job_ontology, additional_data.jobs)
           G == BuildKnowledgeGraph(KnowledgeGraph, skills, jobs)
       IN  /\ skill_ontology' = skills
           /\ job_ontology' = jobs
           /\ kg_type' = G.type
           /\ kg_edge' = G.edge
    /\ initialized' = TRUE
    /\ UNCHANGED <<q_sim, q_rel, q_enh>>
    /\ UNCHANGED <<rankVars, biasVars, enhVars, mlVars, jobVars>>

\* calculate_skill_similarity is called and computes its result
CalculateSkillSimilarity(skill1, skill2) ==
    /\ NoCallPending
    /\ q_sim' = [skill1 |-> skill1, skill2 |-> skill2,
                 similarity |-> SkillSimilarity(KnowledgeGraph, skill1, skill2)]
    /\ UNCHANGED <<skill_ontology, job_ontology, kg_type, kg_edge, initialized, q_rel, q_enh>>
    /\ UNCHANGED <<rankVars, biasVars, enhVars, mlVars, jobVars>>

\* find_related_skills is called and computes its result
FindRelatedSkills(skill, max_depth) ==
    /\ NoCallPending
    /\ q_rel' = [skill |-> skill, max_depth |-> max_depth,
                 result |-> RelatedSkills(KnowledgeGraph, skill, max_depth)]
    /\ UNCHANGED <<skill_ontology, job_ontology, kg_type, kg_edge, initialized, q_sim, q_enh>>
    /\ UNCHANGED <<rankVars, biasVars, enhVars, mlVars, jobVars>>

\* candidate_skills and job_requirements of the calls of enhance_candidate_scoring
CandidateSkillLists ==
    { <<>>, <<"python", "django">>, <<"Python">>, <<"django", "Python">>,
      <<"terraform">>, <<"sql", "azure">>, <<"azure", "sql">>, <<"cobol">> }

JobRequirements ==
    { [required_skills |-> r, preferred_skills |-> p] :
        r \in { <<>>, <<"python", "postgresql">>, <<"mysql">>, <<"python">>,
                <<"mysql", "python">>, <<"rust", "mongodb">>, <<"terraform", "sql">> },
        p \in { <<>>, <<"mysql">>, <<"flask", "sql">> } }

\* enhance_candidate_scoring is called and computes its result
EnhanceCandidateScoring(candidate_skills, job_requirements) ==
    /\ NoCallPending
    /\ LET required_skills == job_requirements.required_skills
           preferred_skills == job_requirements.preferred_skills
           semantic_matches ==
               FindSemanticMatches(KnowledgeGraph, candidate_skills, required_skills)
           preferred_matches ==
               FindSemanticMatches(KnowledgeGraph, candidate_skills, preferred_skills)
       IN  \E skill_gaps \in IdentifySkillGaps(KnowledgeGraph, candidate_skills, required_skills) :
              q_enh' = [candidate_skills |-> candidate_skills,
                        required_skills |-> required_skills,
                        preferred_skills |-> preferred_skills,
                        ontology_score |->
                            OntologyScore(semantic_matches, preferred_matches, required_skills),
                        semantic_matches |-> semantic_matches,
                        preferred_matches |-> preferred_matches,
                        skill_gaps |-> skill_gaps,
                        confidence |->
                            CalculateOntologyConfidence(semantic_matches, required_skills)]
    /\ UNCHANGED <<skill_ontology, job_ontology, kg_type, kg_edge, initialized, q_sim, q_rel>>
    /\ UNCHANGED <<rankVars, biasVars, enhVars, mlVars, jobVars>>

\* the query method returns its result to the caller
ReturnResult ==
    /\ ~NoCallPending
    /\ q_sim' = <<>>
    /\ q_rel' = <<>>
    /\ q_enh' = <<>>
    /\ UNCHANGED <<skill_ontology, job_ontology, kg_type, kg_edge, initialized>>
    /\ UNCHANGED <<rankVars, biasVars, enhVars, mlVars, jobVars>>

NextOnto ==
    \/ InitializeWithoutFile
    \/ \E additional_data \in ExternalOntologies : InitializeWithFile(additional_data)
    \/ \E a, b \in DOMAIN kg_type \cup UnknownNames : CalculateSkillSimilarity(a, b)
    \/ \E a \in DOMAIN kg_type \cup UnknownNames, d \in 0..MaxDepth : FindRelatedSkills(a, d)
    \/ \E candidate_skills \in CandidateSkillLists, job_requirements \in JobRequirements :
          EnhanceCandidateScoring(candidate_skills, job_requirements)
    \/ ReturnResult

(***************************************************************************)
(* Properties of the skill ontology                                        *)
(***************************************************************************)
Nodes == DOMAIN kg_type

\* the nodes one directed edge away from a node of S
Step(S) == {e[2] : e \in {x \in DOMAIN kg_edge : x[1] \in S}}

RECURSIVE Reach(_, _)
\* the nodes at which a directed walk of exactly k edges from a node of S ends
Reach(S, k) == IF k = 0 THEN S ELSE Step(Reach(S, k - 1))

\* the lengths of the directed walks from a to b; a shortest one has fewer edges
\* than there are nodes
WalkLengths(a, b) == {k \in 0..Cardinality(Nodes) : b \in Reach({a}, k)}

\* the length of the shortest directed path from a to b, -1 when there is none
Distance(a, b) ==
    IF WalkLengths(a, b) = {} THEN -1
    ELSE CHOOSE k \in WalkLengths(a, b) : \A i \in WalkLengths(a, b) : k <= i

JobNames == {job_ontology[m].name : m \in DOMAIN job_ontology}

CategoryNames == {skill_ontology[i].category : i \in DOMAIN skill_ontology}

SkillNames ==
    UNION { {skill_ontology[i].skills[k].name : k \in DOMAIN skill_ontology[i].skills}
            : i \in DOMAIN skill_ontology }

\* C8, as stated: similarity(x, x) is 1.0 for every skill x in the graph, and
\* similarity(x, y) is 0.0 whenever x or y is not a node of the graph.
C8_SimilarityIdentityAndUnknown ==
    q_sim # <<>> =>
        /\ (  /\ q_sim.skill1 = q_sim.skill2
              /\ q_sim.skill1 \in Nodes
              /\ kg_type[q_sim.skill1] = "skill"
            => q_sim.similarity = <<1, 1>>)
        /\ (q_sim.skill1 \notin Nodes \/ q_sim.skill2 \notin Nodes
            => q_sim.similarity = <<0, 1>>)

\* C8, amended: similarity(x, x) is 1.0 for every x, a node of the graph or not,
\* and similarity(x, y) is 0.0 whenever x differs from y and x or y is not a node
\* of the graph.
C8_SimilarityIdentityFirst ==
    q_sim # <<>> =>
        /\ (q_sim.skill1 = q_sim.skill2 => q_sim.similarity = <<1, 1>>)
        /\ (  /\ q_sim.skill1 # q_sim.skill2
              /\ q_sim.skill1 \notin Nodes \/ q_sim.skill2 \notin Nodes
            => q_sim.similarity = <<0, 1>>)

\* a skill of the graph was compared with a name the graph does not hold
C8_Witness ==
    /\ q_sim # <<>>
    /\ q_sim.skill1 \in Nodes
    /\ kg_type[q_sim.skill1] = "skill"
    /\ q_sim.skill2 \notin Nodes
    /\ q_sim.similarity = <<0, 1>>

\* C9: for distinct nodes a and b of the graph, similarity(a, b) is 1 / (1 + d),
\* d the number of edges of the shortest path from a to b along edge direction,
\* and 0.0 when there is no such path, whatever leads from b to a.
C9_SimilarityIsDirectedDistance ==
    (  /\ q_sim # <<>>
       /\ q_sim.skill1 # q_sim.skill2
       /\ q_sim.skill1 \in Nodes
       /\ q_sim.skill2 \in Nodes)
    => LET d == Distance(q_sim.skill1, q_sim.skill2)
       IN  q_sim.similarity = IF d = -1 THEN <<0, 1>> ELSE <<1, 1 + d>>

\* two nodes were compared that only a path in the reverse direction joins
C9_Witness ==
    /\ q_sim # <<>>
    /\ q_sim.skill1 # q_sim.skill2
    /\ q_sim.skill1 \in Nodes
    /\ q_sim.skill2 \in Nodes
    /\ Distance(q_sim.skill1, q_sim.skill2) = -1
    /\ Distance(q_sim.skill2, q_sim.skill1) > 1
    /\ q_sim.similarity = <<0, 1>>

\* C10: find_related_skills(skill, max_depth) returns exactly the nodes of type
\* skill, other than the source, that a directed path of 1..max_depth edges
\* reaches from the source; no job and no category is among them, and a name
\* that is not a node gives the empty result.
C10_NeighborsAreReachableSkills ==
    q_rel # <<>> =>
        /\ q_rel.result =
              IF q_rel.skill \notin Nodes THEN {}
              ELSE {n \in Nodes :
                      /\ n # q_rel.skill
                      /\ kg_type[n] = "skill"
                      /\ \E k \in 1..q_rel.max_depth : n \in Reach({q_rel.skill}, k)}
        /\ \A n \in q_rel.result :
              /\ n \notin JobNames
              /\ n \notin CategoryNames \ SkillNames

\* a search of depth 2 found a skill two edges away and passed a job and a
\* category on its way
C10_Witness ==
    /\ q_rel # <<>>
    /\ q_rel.max_depth = 2
    /\ \E n \in q_rel.result : n \notin Step({q_rel.skill})
    /\ \E n \in Step({q_rel.skill}) : n \in JobNames
    /\ \E n \in Step({q_rel.skill}) : n \in CategoryNames \ SkillNames

\* the ontology is the seed with the definitions of the file d put over it; the
\* entries of the dicts, kept as sequences, are compared by their keys
MergedFrom(d) ==
    LET CategoryEntry(ontology, category) ==
            ontology[CHOOSE i \in DOMAIN ontology : ontology[i].category = category]
        JobEntry(jobs, name) == jobs[CHOOSE m \in DOMAIN jobs : jobs[m].name = name]
    IN  /\ CategoryNames' = CategoryNames \cup {d.skills[i].category : i \in DOMAIN d.skills}
        /\ JobNames' = JobNames \cup {d.jobs[m].name : m \in DOMAIN d.jobs}
        /\ \A c \in CategoryNames' :
              CategoryEntry(skill_ontology', c) =
                  IF \E i \in DOMAIN d.skills : d.skills[i].category = c
                  THEN CategoryEntry(d.skills, c) ELSE CategoryEntry(skill_ontology, c)
        /\ \A n \in JobNames' :
              JobEntry(job_ontology', n) =
                  IF \E m \in DOMAIN d.jobs : d.jobs[m].name = n
                  THEN JobEntry(d.jobs, n) ELSE JobEntry(job_ontology, n)

\* C11: loading an external override merges it into the seed ontology, the
\* external definition winning on a key both define, and afterwards the nodes
\* and edges of the graph are exactly those built from the merged ontology on
\* an empty graph: nothing of a replaced seed definition remains.
C11_LoadRebuildsGraphFromScratch ==
    [][\A d \in ExternalOntologies :
          InitializeWithFile(d) =>
              /\ MergedFrom(d)
              /\ LET G == BuildKnowledgeGraph(EmptyGraph, skill_ontology', job_ontology')
                 IN  kg_type' = G.type /\ kg_edge' = G.edge]_vars

\* the similarity of two names: 1 for equal names, 0 when one is not a node or no
\* directed path leads from a to b, else 1 / (1 + distance)
SimilarityOf(a, b) ==
    IF a = b THEN <<1, 1>>
    ELSE IF a \notin Nodes \/ b \notin Nodes \/ Distance(a, b) = -1 THEN <<0, 1>>
    ELSE <<1, 1 + Distance(a, b)>>

\* the match list holds, in the order of the targets, for every target skill an
\* exact match, or else a semantic match of similarity above 0.3 with a most
\* similar candidate skill, or else nothing
MatcherOutput(candidate_skills, target_skills, matches) ==
    LET \* some candidate skill equals the target skill, letter case apart
        HasExact(target) ==
            \E k \in DOMAIN candidate_skills : Lower(candidate_skills[k]) = Lower(target)
        \* no candidate skill is more similar to the target than the candidate skill c
        IsMostSimilar(c, target) ==
            \A k \in DOMAIN candidate_skills :
                ~Greater(SimilarityOf(candidate_skills[k], target), SimilarityOf(c, target))
    IN  /\ \E at \in [DOMAIN matches -> DOMAIN target_skills] :
              /\ \A i, k \in DOMAIN matches : i < k => at[i] < at[k]
              /\ \A i \in DOMAIN matches : matches[i].target_skill = target_skills[at[i]]
              /\ \A t \in DOMAIN target_skills :
                    (\E i \in DOMAIN matches : at[i] = t) <=>
                        \/ HasExact(target_skills[t])
                        \/ \E k \in DOMAIN candidate_skills :
                              Greater(SimilarityOf(candidate_skills[k], target_skills[t]),
                                      <<3, 10>>)
        /\ \A i \in DOMAIN matches :
              LET m == matches[i]
              IN  IF HasExact(m.target_skill)
                  THEN /\ m.match_type = "exact"
                       /\ m.similarity = <<1, 1>>
                       /\ Lower(m.candidate_skill) = Lower(m.target_skill)
                       /\ m.candidate_skill \in Range(candidate_skills)
                  ELSE /\ m.match_type = "semantic"
                       /\ m.candidate_skill \in Range(candidate_skills)
                       /\ m.similarity = SimilarityOf(m.candidate_skill, m.target_skill)
                       /\ IsMostSimilar(m.candidate_skill, m.target_skill)
                       /\ Greater(m.similarity, <<3, 10>>)

\* C12: for every target skill, required and preferred apart, the matcher gives
\* an exact match if a candidate skill equals it case-insensitively, whatever the
\* graph; otherwise a semantic match with the candidate skill of highest
\* similarity if that similarity is strictly above 0.3; otherwise no match.
C12_MatcherExactThenBestAboveThreshold ==
    q_enh # <<>> =>
        /\ MatcherOutput(q_enh.candidate_skills, q_enh.required_skills,
                         q_enh.semantic_matches)
        /\ MatcherOutput(q_enh.candidate_skills, q_enh.preferred_skills,
                         q_enh.preferred_matches)

\* one call left a required skill three edges away (similarity 0.25) unmatched
\* and matched a preferred skill two edges away (similarity 1/3)
C12_Witness ==
    /\ q_enh # <<>>
    /\ \E t \in DOMAIN q_enh.required_skills, k \in DOMAIN q_enh.candidate_skills :
          /\ SimilarityOf(q_enh.candidate_skills[k], q_enh.required_skills[t]) = <<1, 4>>
          /\ \A i \in DOMAIN q_enh.semantic_matches :
                q_enh.semantic_matches[i].target_skill # q_enh.required_skills[t]
    /\ \E i \in DOMAIN q_enh.preferred_matches :
          /\ q_enh.preferred_matches[i].match_type = "semantic"
          /\ q_enh.preferred_matches[i].similarity = <<1, 3>>

\* the skill nodes within two directed edges of a node, the node apart
NeighborsOf(skill) ==
    IF skill \notin Nodes THEN {}
    ELSE {n \in Nodes :
            /\ n # skill
            /\ kg_type[n] = "skill"
            /\ n \in Reach({skill}, 1) \cup Reach({skill}, 2)}

\* C13: the gap list holds exactly the required skills the matcher left
\* unmatched, in their order, so every required skill is in exactly one of the
\* match list and the gap list; each gap entry suggests at most 3 skills, all of
\* them neighbors of the missing skill.
C13_GapsAreUnmatchedRequiredSkills ==
    q_enh # <<>> =>
        /\ LET matched == {q_enh.semantic_matches[i].target_skill
                               : i \in DOMAIN q_enh.semantic_matches}
           IN  /\ [i \in DOMAIN q_enh.skill_gaps |-> q_enh.skill_gaps[i].missing_skill]
                     = SeqFilter(q_enh.required_skills, Range(q_enh.required_skills) \ matched)
               /\ matched \subseteq Range(q_enh.required_skills)
        /\ \A i \in DOMAIN q_enh.skill_gaps :
              /\ Cardinality(q_enh.skill_gaps[i].learning_path) <= 3
              /\ q_enh.skill_gaps[i].learning_path
                    \subseteq NeighborsOf(q_enh.skill_gaps[i].missing_skill)

\* a call matched one required skill and reported another as a gap with three
\* suggestions out of more than three neighbors
C13_Witness ==
    /\ q_enh # <<>>
    /\ q_enh.semantic_matches # <<>>
    /\ \E i \in DOMAIN q_enh.skill_gaps :
          /\ Cardinality(NeighborsOf(q_enh.skill_gaps[i].missing_skill)) > 3
          /\ Cardinality(q_enh.skill_gaps[i].learning_path) = 3

\* _get_matched_skills: the job skills some resume skill equals, letter case apart
GetMatchedSkills(resume_skills, job_skills) ==
    SeqFilter(job_skills,
              {x \in Range(job_skills) : Lower(x) \in Range(LowerSeq(resume_skills))})

\* _get_missing_skills: the job skills no resume skill equals, letter case apart
GetMissingSkills(resume_skills, job_skills) ==
    SeqFilter(job_skills,
              {x \in Range(job_skills) : Lower(x) \notin Range(LowerSeq(resume_skills))})

\* C17: on the seed ontology a candidate with skills python and django, scored
\* against a job requiring python and postgresql, gets an exact match on python
\* and a semantic match on postgresql of similarity above 0.3; no skill is
\* missing and the matched skills are python and postgresql.
C17_SeedEndToEnd ==
    ( /\ q_enh # <<>>
      /\ KnowledgeGraph = BuildKnowledgeGraph(EmptyGraph, SeedSkillOntology, SeedJobOntology)
      /\ q_enh.candidate_skills = <<"python", "django">>
      /\ q_enh.required_skills = <<"python", "postgresql">> ) =>
        /\ \E i \in DOMAIN q_enh.semantic_matches :
              /\ q_enh.semantic_matches[i].target_skill = "python"
              /\ q_enh.semantic_matches[i].match_type = "exact"
        /\ \E i \in DOMAIN q_enh.semantic_matches :
              /\ q_enh.semantic_matches[i].target_skill = "postgresql"
              /\ q_enh.semantic_matches[i].match_type = "semantic"
              /\ Greater(q_enh.semantic_matches[i].similarity, <<3, 10>>)
        /\ q_enh.skill_gaps = <<>>
        /\ GetMissingSkills(q_enh.candidate_skills, q_enh.required_skills) = <<>>
        /\ GetMatchedSkills(q_enh.candidate_skills, q_enh.required_skills)
              = <<"python", "postgresql">>

\* C18: when candidate and required skills are disjoint and unconnected, the
\* ontology score is 0 and every required skill is in the gap list, whatever the
\* preferred skills of the job.
C18_DisjointScoresZero ==
    ( /\ q_enh # <<>>
      /\ \A k \in DOMAIN q_enh.candidate_skills, t \in DOMAIN q_enh.required_skills :
            LET c == q_enh.candidate_skills[k]
                r == q_enh.required_skills[t]
            IN  /\ Lower(c) # Lower(r)
                /\ c \notin Nodes \/ r \notin Nodes \/ Distance(c, r) = -1 ) =>
        /\ q_enh.ontology_score = 0
        /\ Range(q_enh.required_skills)
              \subseteq {q_enh.skill_gaps[i].missing_skill : i \in DOMAIN q_enh.skill_gaps}

(***************************************************************************)
(* PART IV  -  ENHANCED SCORING                                            *)
(*                                                                         *)
(* Scores are in hundredths, confidences are fractions <<n, d>>.  What a   *)
(* provider does on a call (it answers, it falls back inside, it raises)   *)
(* depends on models, network and data outside the service: it is an       *)
(* input of the call.                                                      *)
(***************************************************************************)
\* bound on the evaluations the scoring specification logs
MaxScoredCandidates == 1

\* self.features_enabled when the environment sets none of the variables
DefaultFeatures ==
    [ml_models |-> TRUE, llm_integration |-> FALSE, ontology |-> TRUE, bias_detection |-> TRUE]

\* the environments the service is constructed under
Environments ==
    { DefaultFeatures,
      [ml_models |-> TRUE, llm_integration |-> TRUE, ontology |-> TRUE, bias_detection |-> TRUE],
      [ml_models |-> FALSE, llm_integration |-> TRUE, ontology |-> FALSE, bias_detection |-> FALSE] }

RECURSIVE ProductOfDenominators(_, _)
ProductOfDenominators(confidence, S) ==
    IF S = {} THEN 1
    ELSE LET m == CHOOSE x \in S : TRUE
         IN  confidence[m][2] * ProductOfDenominators(confidence, S \ {m})

\* round(n / d, 2) of a quotient in hundredths: a quotient halfway between two
\* hundredths goes either way, the float division decides
RoundHundredths(n, d) ==
    IF 2 * (n % d) = d THEN {n \div d, n \div d + 1} ELSE {RoundDiv(n, d)}

\* CalculateEnsembleScore as the plain mean of the scores, confidences ignored
CalculateEnsembleScore_Unweighted(scores, confidence_scores) ==
    LET entered == {m \in DOMAIN scores : "overall_score" \in DOMAIN scores[m]}
    IN  IF entered = {} THEN {0}
        ELSE RoundHundredths(SumOver([m \in entered |-> scores[m].overall_score], entered),
                             Cardinality(entered))

\* _calculate_ensemble_score: the values the call can return
CalculateEnsembleScore(scores, confidence_scores) ==
    LET entered == {m \in DOMAIN scores : "overall_score" \in DOMAIN scores[m]}
        confidence == [m \in entered |->
                          IF m \in DOMAIN confidence_scores THEN confidence_scores[m]
                          ELSE <<1, 2>>]   \* confidence_scores.get(method, 0.5)
        D == ProductOfDenominators(confidence, entered)
        weight == [m \in entered |-> confidence[m][1] * (D \div confidence[m][2])]
        weighted_sum == SumOver([m \in entered |-> scores[m].overall_score * weight[m]], entered)
        total_weight == SumOver(weight, entered)
    IN  IF DOMAIN scores = {} \/ total_weight = 0 THEN {0}
        ELSE RoundHundredths(weighted_sum, total_weight)

\* the fallback score without the caps of 100 on its three parts
FallbackScoring_Uncapped(resume_data) ==
    [overall_score |-> 40 * (Len(resume_data.skills) * 10)
                         + 40 * (resume_data.experience * 20)
                         + 20 * (resume_data.n_education * 25),
     confidence    |-> <<3, 10>>]

\* MLModelsService._fallback_scoring
FallbackScoring(resume_data) ==
    [overall_score |-> 40 * Min(100, Len(resume_data.skills) * 10)
                         + 40 * Min(100, resume_data.experience * 20)
                         + 20 * Min(100, resume_data.n_education * 25),
     confidence    |-> <<3, 10>>]

\* predict_candidate_score: untrained models or an error inside give the fallback
\* scoring; trained models agree (no variance) or differ
PredictCandidateScore(outcome, resume_data) ==
    CASE outcome = "fallback" -> FallbackScoring(resume_data)
      [] outcome = "agreeing" -> [overall_score |-> 9000, confidence |-> <<1, 1>>]
      [] OTHER -> [overall_score |-> 6250, confidence |-> <<1, 2>>]

\* the part of the result of enhance_candidate_scoring the service reads
OntologyResult(candidate_skills, job_requirements) ==
    LET semantic_matches ==
            FindSemanticMatches(KnowledgeGraph, candidate_skills,
                                job_requirements.required_skills)
        preferred_matches ==
            FindSemanticMatches(KnowledgeGraph, candidate_skills,
                                job_requirements.preferred_skills)
    IN  [ontology_score |-> OntologyScore(semantic_matches, preferred_matches,
                                          job_requirements.required_skills),
         confidence     |-> CalculateOntologyConfidence(semantic_matches,
                                                        job_requirements.required_skills)]

\* analyze_resume_context: contextual_analysis.confidence and confidence of the
\* analysis; without API key, and on a timeout or an error of the API, it is
\* _fallback_analysis.  The "confidence" of an answer is the number the JSON of
\* the answer carries, taken as it is (lines 46-53): 0.9, or 8 when the answer
\* gives it on a scale of ten
AnalyzeResumeContext(outcome) ==
    CASE outcome \in {"no_key", "error"} ->
             [contextual_confidence |-> <<3, 10>>, confidence |-> <<3, 10>>]
      [] outcome = "answer" ->
             [contextual_confidence |-> <<9, 10>>, confidence |-> <<9, 10>>]
      [] outcome = "answer_out_of_ten" ->
             [contextual_confidence |-> <<8, 1>>, confidence |-> <<8, 1>>]
      [] outcome = "answer_without_confidence" ->
             [contextual_confidence |-> <<1, 2>>, confidence |-> <<7, 10>>]
      [] OTHER -> \* "unparsed": _fallback_parse
             [contextual_confidence |-> <<1, 2>>, confidence |-> <<1, 2>>]

\* what the providers can do on a call
Outcomes ==
    [base_nlp : {"ok", "internal_error", "raises"},
     ml_models : {"fallback", "agreeing", "differing", "raises", "skipped"},
     ontology : {"ok", "raises", "skipped"},
     llm : {"no_key", "error", "answer", "answer_out_of_ten", "answer_without_confidence",
            "unparsed", "raises", "skipped"}]

\* a provider is skipped exactly when its feature is off, lines 165, 174, 187
CalledAsEnabled(outcomes) ==
    /\ outcomes.ml_models = "skipped" <=> ~features_enabled.ml_models
    /\ outcomes.ontology = "skipped" <=> ~features_enabled.ontology
    /\ outcomes.llm = "skipped" <=> ~features_enabled.llm_integration

\* base_score, line 160: calculate_candidate_score returns zeros when its try
\* block raises
BaseScore(resume_data, job_requirements, outcomes) ==
    IF outcomes.base_nlp = "ok" THEN CalculateCandidateScore(resume_data, job_requirements)
    ELSE [overall_score |-> 0, skill_score |-> 0, experience_score |-> 0, education_score |-> 0]

\* the results calculate_enhanced_candidate_score can return, lines 154-229
EnhancedScore(resume_data, job_requirements, outcomes) ==
    IF outcomes.base_nlp = "raises"
    THEN {[overall_score |-> 0, error |-> TRUE]}
    ELSE LET added == {"base_nlp"}
                        \cup {m \in {"ml_models", "ontology", "llm"} :
                                 outcomes[m] \notin {"skipped", "raises"}}
             llm_analysis == AnalyzeResumeContext(outcomes.llm)
             scores ==
                 [m \in added |->
                     CASE m = "base_nlp" -> BaseScore(resume_data, job_requirements, outcomes)
                       [] m = "ml_models" ->
                              PredictCandidateScore(outcomes.ml_models, resume_data)
                       [] m = "ontology" ->
                              OntologyResult(resume_data.skills, job_requirements)
                       [] OTHER ->
                              [overall_score |->
                                  (10000 * llm_analysis.contextual_confidence[1])
                                      \div llm_analysis.contextual_confidence[2]]]
             confidence_scores ==
                 [m \in added |->
                     CASE m = "base_nlp" -> <<4, 5>>
                       [] m = "llm" -> llm_analysis.confidence
                       [] OTHER -> scores[m].confidence]
         IN  {[overall_score     |-> ensemble_score,
               individual_scores |-> scores,
               confidence_scores |-> confidence_scores,
               features_used     |-> {k \in DOMAIN features_enabled : features_enabled[k]}]
                 : ensemble_score \in CalculateEnsembleScore(scores, confidence_scores)}

\* resume_data of two candidates: what the scorers and the bias detectors read
ScoredResumes ==
    { [candidate_id |-> "c1", skills |-> <<"python", "django">>, experience |-> 2,
     education |-> {"bachelor"}, n_education |-> 1, malformed |-> FALSE,
     female |-> 0, male |-> 0, name_hits |-> 2, prestigious |-> 1, community |-> 0,
     n_exp |-> 2, startup |-> 1, major_cities |-> 0, rural |-> 0],
    [candidate_id |-> "c2", skills |-> <<"sql", "azure">>, experience |-> 0,
     education |-> {}, n_education |-> 0, malformed |-> FALSE,
     female |-> 1, male |-> 0, name_hits |-> 0, prestigious |-> 0, community |-> 0,
     n_exp |-> 0, startup |-> 0, major_cities |-> 0, rural |-> 0] }

ScoredJobs ==
    { [required_skills |-> <<"python", "postgresql">>, preferred_skills |-> <<>>],
      [required_skills |-> <<"python">>, preferred_skills |-> <<"mysql">>] }

\* the arguments of the direct calls of _calculate_ensemble_score
EnsembleScores ==
    UNION { [S -> {[overall_score |-> 1001], [overall_score |-> 1002],
                   [overall_score |-> 7500], [ontology_score |-> 5000]}]
              : S \in SUBSET {"base_nlp", "ml_models"} }

EnsembleConfidenceScores ==
    UNION { [S -> {<<0, 1>>, <<1, 2>>, <<4, 5>>, <<1, 1>>}]
              : S \in SUBSET {"base_nlp", "ml_models"} }

InitEnh ==
    /\ features_enabled = DefaultFeatures
    /\ e_score = <<>>
    /\ e_ens = <<>>

\* no call on the service is between its call and its return
NoScoringPending == e_score = <<>> /\ e_ens = <<>>

\* EnhancedNLPService.__init__ under an environment, before any call
EnhancedNLPServiceInit(env) ==
    /\ NoScoringPending
    /\ log_history = <<>> /\ b_result = <<>>
    /\ features_enabled' = env
    /\ UNCHANGED <<e_score, e_ens>>
    /\ UNCHANGED <<rankVars, biasVars, ontoVars, mlVars, jobVars>>

\* calculate_enhanced_candidate_score: the result, and the evaluation the bias
\* service logs when bias detection is on and the base scorer returned
CalculateEnhancedCandidateScore(resume_data, job_requirements, outcomes) ==
    /\ NoScoringPending
    /\ Len(log_history) < MaxScoredCandidates
    /\ CalledAsEnabled(outcomes)
    /\ \E result \in EnhancedScore(resume_data, job_requirements, outcomes) :
          e_score' = [resume_data |-> resume_data, job_requirements |-> job_requirements,
                      outcomes |-> outcomes, result |-> result]
    /\ IF features_enabled.bias_detection /\ outcomes.base_nlp # "raises"
       THEN AnalyzeCandidateBiasCall(
                resume_data,
                BaseScore(resume_data, job_requirements, outcomes).overall_score)
       ELSE UNCHANGED biasVars
    /\ UNCHANGED <<features_enabled, e_ens>>
    /\ UNCHANGED <<rankVars, ontoVars, mlVars, jobVars>>

\* _calculate_ensemble_score applied to a score bundle
ApplyEnsembleScore(scores, confidence_scores) ==
    /\ NoScoringPending
    /\ \E result \in CalculateEnsembleScore(scores, confidence_scores) :
          e_ens' = [scores |-> scores, confidence_scores |-> confidence_scores,
                    result |-> result]
    /\ UNCHANGED <<features_enabled, e_score>>
    /\ UNCHANGED <<rankVars, biasVars, ontoVars, mlVars, jobVars>>

\* the call returns its result to the caller
ReturnScore ==
    /\ ~NoScoringPending
    /\ e_score' = <<>>
    /\ e_ens' = <<>>
    /\ UNCHANGED features_enabled
    /\ UNCHANGED <<rankVars, biasVars, ontoVars, mlVars, jobVars>>

NextEnsemble ==
    \/ \E env \in Environments : EnhancedNLPServiceInit(env)
    \/ \E resume_data \in ScoredResumes, job_requirements \in ScoredJobs, outcomes \in Outcomes :
          CalculateEnhancedCandidateScore(resume_data, job_requirements, outcomes)
    \/ \E scores \in EnsembleScores, confidence_scores \in EnsembleConfidenceScores :
          ApplyEnsembleScore(scores, confidence_scores)
    \/ ReturnScore

(***************************************************************************)
(* Part IV - properties                                                    *)
(***************************************************************************)
\* the confidence a source is weighted with: the one supplied, else 0.5
ConfidenceOf(confidence_scores, m) ==
    IF m \in DOMAIN confidence_scores THEN confidence_scores[m] ELSE <<1, 2>>

\* twice the distance between overall and the confidence-weighted mean of the
\* scores of the sources S is at most one hundredth; the confidences are
\* brought over the product of their denominators
IsWeightedMean(overall, scores, confidence_scores, S) ==
    LET c == [m \in S |-> ConfidenceOf(confidence_scores, m)]
        w == [m \in S |-> c[m][1] * (ProductOfDenominators(c, S) \div c[m][2])]
        sum == SumOver([m \in S |-> scores[m] * w[m]], S)
        total == SumOver(w, S)
    IN  2 * Abs(overall * total - sum) <= total

Methods == {"base_nlp", "ml_models", "ontology", "llm"}

\* the score a provider returned: its overall score, for the ontology its
\* ontology score
ScoreOf(score_data) ==
    IF "overall_score" \in DOMAIN score_data THEN score_data.overall_score
    ELSE score_data.ontology_score

\* the call returned a score bundle without the sources of Omitted, and its
\* overall score is the confidence-weighted mean of all sources of the bundle
PartialResult(result, Omitted) ==
    /\ "error" \notin DOMAIN result
    /\ Omitted \cap DOMAIN result.individual_scores = {}
    /\ Omitted \cap DOMAIN result.confidence_scores = {}
    /\ LET S == DOMAIN result.individual_scores
       IN  IsWeightedMean(result.overall_score,
                          [m \in S |-> ScoreOf(result.individual_scores[m])],
                          result.confidence_scores, S)

\* C15: whichever single source raises during
\* calculate_enhanced_candidate_score, the call returns no error result, the
\* source is omitted from the bundle, and the overall score is the
\* confidence-weighted mean of the remaining sources.
C15_FailingSourceIsOmitted ==
    e_score # <<>> =>
        \A m \in Methods :
            ( /\ e_score.outcomes[m] = "raises"
              /\ \A k \in Methods \ {m} : e_score.outcomes[k] # "raises" )
                => PartialResult(e_score.result, {m})

\* C16: when the call of the LLM times out or fails (and no other source
\* raises), the scoring call returns a score without error and the bundle has
\* neither a score nor a confidence of the llm source.
C16_LLMFailureOmitsSource ==
    ( /\ e_score # <<>>
      /\ e_score.outcomes.llm \in {"error", "raises"}
      /\ \A k \in Methods \ {"llm"} : e_score.outcomes[k] # "raises" ) =>
        /\ "error" \notin DOMAIN e_score.result
        /\ "llm" \notin DOMAIN e_score.result.individual_scores
        /\ "llm" \notin DOMAIN e_score.result.confidence_scores

\* C23: in the score bundle of every scoring call that returned one, each
\* present source has a score in [0, 100] and a confidence in [0, 1], and the
\* overall score lies in [0, 100].
C23_BundleWithinRanges ==
    (e_score # <<>> /\ "error" \notin DOMAIN e_score.result) =>
        LET result == e_score.result
        IN  /\ \A m \in DOMAIN result.individual_scores :
                  /\ ScoreOf(result.individual_scores[m]) \in 0..10000
                  /\ m \in DOMAIN result.confidence_scores
                  /\ result.confidence_scores[m][1] >= 0
                  /\ result.confidence_scores[m][1] <= result.confidence_scores[m][2]
            /\ result.overall_score \in 0..10000

\* C24: a call of calculate_enhanced_candidate_score leaves the bias log, the
\* ranking store and the ontology (its two tables and the knowledge graph)
\* unchanged.
C24_ScoringTouchesNoSharedState ==
    [][\A resume_data \in ScoredResumes, job_requirements \in ScoredJobs, outcomes \in Outcomes :
          CalculateEnhancedCandidateScore(resume_data, job_requirements, outcomes) =>
              UNCHANGED <<bias_logs, candidate_rankings,
                          skill_ontology, job_ontology, kg_type, kg_edge>>]_vars

(***************************************************************************)
(* PART V  -  ML PREDICTOR                                                 *)
(*                                                                         *)
(* Predictions are whole points, overall scores are in hundredths and      *)
(* confidences are fractions <<n, d>>.  What a loaded model predicts, and  *)
(* whether its predict or the scaler raises, depends on the files under    *)
(* models/: it is an input of the call.                                    *)
(***************************************************************************)
\* the keys of model_files, in the order train_models fits them
ModelNames == <<"random_forest", "knn", "decision_tree">>

\* self.model_weights, in tenths
ModelWeights == [random_forest |-> 4, knn |-> 3, decision_tree |-> 3]

\* what model.predict(features_scaled)[0] returns, in points
RawPredictions == {-10, 60, 120}

\* the keywords of _extract_features that occur in degree.lower()
DegreeMentions(degree) ==
    CASE degree = "PhD in Physics" -> {"phd"}
      [] degree = "Master of Science" -> {"master"}
      [] degree = "Bachelor of Arts" -> {"bachelor"}
      [] degree = "Diploma in Nursing" -> {"diploma"}
      [] OTHER -> {}

\* the elif chain of lines 279-288 on one degree
EducationLevel(degree) ==
    LET in_degree == DegreeMentions(degree)
    IN  IF "phd" \in in_degree \/ "doctorate" \in in_degree THEN 4
        ELSE IF "master" \in in_degree THEN 3
        ELSE IF "bachelor" \in in_degree THEN 2
        ELSE IF "associate" \in in_degree \/ "diploma" \in in_degree THEN 1
        ELSE 0

\* _extract_features: the five features; the skill match score is the
\* fraction <<matched * 100, len(job_skills)>>
ExtractFeatures(resume_data, job_requirements) ==
    LET skills == resume_data.skills
        experience_years == resume_data.experience * 2
        education == resume_data.education_entries
        edu_level == IF education # <<>> THEN EducationLevel(education[1]) ELSE 0
        job_skills == job_requirements.required_skills
        matched_skills == Cardinality({i \in 1..Len(job_skills) :
                                          Lower(job_skills[i]) \in Range(LowerSeq(skills))})
        skill_match_score == IF job_skills # <<>> THEN <<matched_skills * 100, Len(job_skills)>>
                             ELSE <<0, 1>>
        relevance_score == Min(100, Len(skills) * 5 + experience_years * 10)
    IN  <<Len(skills), experience_years, edu_level, skill_match_score, relevance_score>>

\* _calculate_confidence: max(0.1, 1 - variance / 1000) rounded to 2 decimals,
\* 0.5 for fewer than two predictions
CalculateConfidence(predictions) ==
    LET held == DOMAIN predictions
        n == Cardinality(held)
        sum == SumOver(predictions, held)
        squares == SumOver([m \in held |-> predictions[m] * predictions[m]], held)
        \* (1 - variance / 1000) * 1000 * n * n
        scaled == 1000 * n * n - (n * squares - sum * sum)
    IN  IF n < 2 THEN {<<1, 2>>}
        ELSE IF 10 * scaled < 1000 * n * n THEN {<<10, 100>>}
        ELSE {<<c, 100>> : c \in RoundHundredths(scaled, 10 * n * n)}

\* the results predict_candidate_score can return, lines 215-261: loaded is
\* self.models, raw the prediction of each model, failing the models whose
\* predict raises
PredictWithModels(trained, loaded, scaler, raw, failing, resume_data) ==
    IF ~trained \/ scaler = "raises"
    THEN {[overall_score |-> FallbackScoring(resume_data).overall_score,
           model_predictions |-> [fallback |-> FallbackScoring(resume_data).overall_score],
           confidence |-> FallbackScoring(resume_data).confidence,
           model_type |-> "fallback"]}
    ELSE LET predictions == [m \in loaded |-> IF m \in failing THEN 50
                                              ELSE Max(0, Min(100, raw[m]))]
             \* predictions[model] * self.model_weights[model], in hundredths
             ensemble_score == SumOver([m \in loaded |-> 10 * predictions[m] * ModelWeights[m]],
                                       loaded)
         IN  {[overall_score |-> ensemble_score,
               model_predictions |-> predictions,
               confidence |-> confidence,
               model_type |-> "traditional_ml"] : confidence \in CalculateConfidence(predictions)}

\* resume_data as the predictor reads it: the skills, the number of experience
\* entries, the degrees of the education entries in their order
MLResumes ==
    LET Resume(skills, experience, education) ==
            [skills |-> skills, experience |-> experience,
             education_entries |-> education, n_education |-> Len(education)]
    IN  { Resume(<<>>, 0, <<>>),
          Resume(<<"Python", "sql">>, 1, <<"Bachelor of Arts", "PhD in Physics">>),
          Resume(<<"Python", "sql">>, 1, <<"PhD in Physics", "Bachelor of Arts">>),
          Resume(<<"python">>, 6,
                 <<"Diploma in Nursing", "High School", "Master of Science",
                   "Bachelor of Arts", "Diploma in Nursing">>) }

InitML ==
    /\ models = {}
    /\ is_trained = FALSE
    /\ m_call = <<>>
    /\ m_features = <<>>

\* no call on the predictor is between its call and its return
NoPredictionPending == m_call = <<>> /\ m_features = <<>>

\* _load_models with the model files of `files` present under models/
LoadModels(files) ==
    /\ NoPredictionPending
    /\ models' = models \cup files
    /\ is_trained' = (Cardinality(models') > 0)
    /\ UNCHANGED <<m_call, m_features>>
    /\ UNCHANGED <<rankVars, biasVars, ontoVars, enhVars, jobVars>>

\* train_models: the first `fitted` models are fitted and stored before an
\* error ends the training (0: no training data or an early error; all three:
\* the training succeeds and sets is_trained)
TrainModels(fitted) ==
    /\ NoPredictionPending
    /\ models' = models \cup {ModelNames[i] : i \in 1..fitted}
    /\ is_trained' = (is_trained \/ fitted = Len(ModelNames))
    /\ UNCHANGED <<m_call, m_features>>
    /\ UNCHANGED <<rankVars, biasVars, ontoVars, enhVars, jobVars>>

\* predict_candidate_score
PredictCandidateScoreCall(resume_data, job_requirements, scaler, raw, failing) ==
    /\ NoPredictionPending
    /\ \E result \in PredictWithModels(is_trained, models, scaler, raw, failing, resume_data) :
          m_call' = [resume_data |-> resume_data, job_requirements |-> job_requirements,
                     is_trained |-> is_trained, models |-> models, scaler |-> scaler,
                     raw |-> raw, failing |-> failing, result |-> result]
    /\ UNCHANGED <<models, is_trained, m_features>>
    /\ UNCHANGED <<rankVars, biasVars, ontoVars, enhVars, jobVars>>

\* _extract_features applied to a resume and a job
ExtractFeaturesCall(resume_data, job_requirements) ==
    /\ NoPredictionPending
    /\ m_features' = [resume_data |-> resume_data, job_requirements |-> job_requirements,
                      features |-> ExtractFeatures(resume_data, job_requirements)]
    /\ UNCHANGED <<models, is_trained, m_call>>
    /\ UNCHANGED <<rankVars, biasVars, ontoVars, enhVars, jobVars>>

\* the call returns its result to the caller
ReturnPrediction ==
    /\ ~NoPredictionPending
    /\ m_call' = <<>>
    /\ m_features' = <<>>
    /\ UNCHANGED <<models, is_trained>>
    /\ UNCHANGED <<rankVars, biasVars, ontoVars, enhVars, jobVars>>

NextML ==
    \/ \E files \in SUBSET Range(ModelNames) : LoadModels(files)
    \/ \E fitted \in 0..Len(ModelNames) : TrainModels(fitted)
    \/ \E resume_data \in MLResumes, job_requirements \in ScoredJobs,
          scaler \in {"ok", "raises"}, raw \in [Range(ModelNames) -> RawPredictions],
          failing \in {{}, {"knn"}} :
          PredictCandidateScoreCall(resume_data, job_requirements, scaler, raw, failing)
    \/ \E resume_data \in MLResumes, job_requirements \in ScoredJobs :
          ExtractFeaturesCall(resume_data, job_requirements)
    \/ ReturnPrediction

(***************************************************************************)
(* Part V - properties                                                     *)
(***************************************************************************)
\* C25: whenever the predictor is trained and answers with its models, the
\* overall score is 0.4 * random_forest + 0.3 * knn + 0.3 * decision_tree over
\* the three predictions, each the model's prediction clamped to [0, 100],
\* whatever set of models is held.
C25_EnsembleIsFixedWeightAverage ==
    (m_call # <<>> /\ m_call.is_trained /\ m_call.result.model_type = "traditional_ml") =>
        LET predictions == m_call.result.model_predictions
        IN  /\ DOMAIN predictions = Range(ModelNames)
            /\ \A m \in DOMAIN predictions :
                  /\ predictions[m] \in 0..100
                  /\ m \notin m_call.failing =>
                        predictions[m] = Max(0, Min(100, m_call.raw[m]))
            /\ m_call.result.overall_score = 40 * predictions["random_forest"]
                                               + 30 * predictions["knn"]
                                               + 30 * predictions["decision_tree"]

\* C26: with no trained model predict_candidate_score returns the fallback
\* score min(100, skills * 10) * 0.4 + min(100, experience * 20) * 0.4 +
\* min(100, education * 25) * 0.2 of its input, a value in [0, 100], with
\* confidence 0.3.
C26_FallbackWhenUntrained ==
    (m_call # <<>> /\ ~m_call.is_trained) =>
        LET resume_data == m_call.resume_data
            Capped(x) == IF x > 100 THEN 100 ELSE x
        IN  /\ m_call.result.model_type = "fallback"
            /\ m_call.result.overall_score =
                   40 * Capped(Len(resume_data.skills) * 10)
                     + 40 * Capped(resume_data.experience * 20)
                     + 20 * Capped(Len(resume_data.education_entries) * 25)
            /\ m_call.result.overall_score \in 0..10000
            /\ m_call.result.confidence = <<3, 10>>

\* an untrained predictor (one model stored by a training that failed) scored
\* a resume whose experience and education parts are capped: 4 + 40 + 20
C26_Witness ==
    /\ m_call # <<>>
    /\ ~m_call.is_trained
    /\ m_call.models # {}
    /\ m_call.resume_data.experience * 20 > 100
    /\ Len(m_call.resume_data.education_entries) * 25 > 100
    /\ m_call.result.overall_score = 6400

\* C27: the education feature is the highest encoded level over all education
\* entries (phd 4, master 3, bachelor 2, associate or diploma 1, other 0), 0
\* without entries, whatever the order of the entries.
C27_EducationFeatureIsHighestLevel ==
    m_features # <<>> =>
        LET education == m_features.resume_data.education_entries
            levels == {EducationLevel(education[i]) : i \in 1..Len(education)}
        IN  m_features.features[3] = IF levels = {} THEN 0 ELSE SetMax(levels)

(***************************************************************************)
(* PART VI  -  JOB STATUS                                                  *)
(*                                                                         *)
(* One HR user owns the jobs.  A job document is reduced to the fields the *)
(* status handlers read and write; dates are days of a logical clock, an   *)
(* unset date is the empty sequence.  find_one of the adapter filters on   *)
(* the first key of its query, which is "_id" in these handlers.           *)
(***************************************************************************)
\* bound on the logical clock of the jobs router
MaxJobClock == 1

\* class JobStatus
JobStatus == {"active", "inactive", "completed", "draft"}

\* the values of auto_complete_days the model creates jobs with
AutoCompleteDays == {1}

\* JobUpdate as sent by a client: status is <<>> when the field is left out
JobUpdates == [status : {<<>>} \cup {<<st>> : st \in JobStatus}]

InitJobs ==
    /\ jobs_collection = [j \in Jobs |-> NoDocument]
    /\ utcnow = 0
    /\ s_request = [h \in Handlers |-> <<>>]

\* a day passes
JobClockTick ==
    /\ utcnow < MaxJobClock
    /\ utcnow' = utcnow + 1
    /\ UNCHANGED <<jobs_collection, s_request>>
    /\ UNCHANGED <<rankVars, biasVars, ontoVars, enhVars, mlVars>>

\* create_job: the document of a new job
CreateJob(j, auto_complete_days) ==
    /\ jobs_collection[j] = NoDocument
    /\ jobs_collection' = [jobs_collection EXCEPT ![j] =
                              [status |-> "active",
                               completion_date |-> utcnow + auto_complete_days,
                               completed_at |-> <<>>,
                               is_auto_completed |-> FALSE]]
    /\ UNCHANGED <<utcnow, s_request>>
    /\ UNCHANGED <<rankVars, biasVars, ontoVars, enhVars, mlVars>>

\* update_job: every field of the update that is not None is $set on the
\* document, lines 191-202; what follows the write (the adapter's update_one
\* returns a dict, so `result.modified_count` raises) changes no document
UpdateJob(j, job_update) ==
    /\ jobs_collection[j] # NoDocument
    /\ jobs_collection' = IF job_update.status # <<>>
                          THEN [jobs_collection EXCEPT ![j].status = job_update.status[1]]
                          ELSE jobs_collection
    /\ UNCHANGED <<utcnow, s_request>>
    /\ UNCHANGED <<rankVars, biasVars, ontoVars, enhVars, mlVars>>

\* update_job_status, lines 388-403: read the job and refuse to take a
\* completed job to another status (the refused request changes nothing)
CheckJobStatus(h, j, new_status) ==
    /\ s_request[h] = <<>>
    /\ jobs_collection[j] # NoDocument
    /\ ~(jobs_collection[j].status = "completed" /\ new_status # "completed")
    /\ s_request' = [s_request EXCEPT ![h] = [job_id |-> j, status |-> new_status]]
    /\ UNCHANGED <<jobs_collection, utcnow>>
    /\ UNCHANGED <<rankVars, biasVars, ontoVars, enhVars, mlVars>>

\* update_job_status, lines 405-423: write the status, and completed_at when
\* the job is being completed
WriteJobStatus(h) ==
    /\ s_request[h] # <<>>
    /\ LET j == s_request[h].job_id
           new_status == s_request[h].status
       IN  jobs_collection' =
               [jobs_collection EXCEPT
                   ![j].status = new_status,
                   ![j].completed_at = IF new_status = "completed" THEN <<utcnow>> ELSE @]
    /\ s_request' = [s_request EXCEPT ![h] = <<>>]
    /\ UNCHANGED utcnow
    /\ UNCHANGED <<rankVars, biasVars, ontoVars, enhVars, mlVars>>

\* check_auto_complete_jobs: every job the find of line 574 returns is
\* completed.  The collection is the adapter of database/firebase_adapter.py,
\* whose find filters on the first key of the query alone (to_list, line 43):
\* of hr_id, status and completion_date only hr_id is applied, so the find
\* returns every job of the HR user
CheckAutoCompleteJobs ==
    /\ LET jobs_to_complete == {j \in Jobs : jobs_collection[j] # NoDocument}
       IN  jobs_collection' =
               [j \in Jobs |->
                   IF j \in jobs_to_complete
                   THEN [jobs_collection[j] EXCEPT !.status = "completed",
                                                   !.completed_at = <<utcnow>>,
                                                   !.is_auto_completed = TRUE]
                   ELSE jobs_collection[j]]
    /\ UNCHANGED <<utcnow, s_request>>
    /\ UNCHANGED <<rankVars, biasVars, ontoVars, enhVars, mlVars>>

NextJobs ==
    \/ JobClockTick
    \/ \E j \in Jobs, auto_complete_days \in AutoCompleteDays : CreateJob(j, auto_complete_days)
    \/ \E j \in Jobs, job_update \in JobUpdates : UpdateJob(j, job_update)
    \/ \E h \in Handlers, j \in Jobs, new_status \in JobStatus : CheckJobStatus(h, j, new_status)
    \/ \E h \in Handlers : WriteJobStatus(h)
    \/ CheckAutoCompleteJobs

(***************************************************************************)
(* Part VI - properties                                                    *)
(***************************************************************************)
\* C30: a job whose status is completed keeps the status completed over every
\* step of update_job_status, update_job and check_auto_complete_jobs.
C30_CompletedIsAbsorbing ==
    [][\A j \in Jobs :
          (jobs_collection[j] # NoDocument /\ jobs_collection[j].status = "completed")
              => jobs_collection'[j].status = "completed"]_vars

Init == InitRank /\ InitBias /\ InitOnto /\ InitEnh /\ InitML /\ InitJobs

SpecRank == Init /\ [][NextRank]_vars

SpecBiasLog == Init /\ [][NextBiasLog]_vars

SpecBiasReport == Init /\ [][NextBiasReport]_vars

SpecOnto == Init /\ [][NextOnto]_vars

SpecEnsemble == Init /\ [][NextEnsemble]_vars

SpecML == Init /\ [][NextML]_vars

SpecJobs == Init /\ [][NextJobs]_vars

Next == NextRank \/ NextBiasLog \/ NextBiasReport \/ NextOnto \/ NextEnsemble \/ NextML \/ NextJobs

Spec == Init /\ [][Next]_vars
====
